---- MODULE Spec2Model ----
(***************************************************************************)
(* A model of the tile-pipeline engine of versatiles-rs: the overlay       *)
(* operation, the vector-tile property-update transform and the            *)
(* DataConverter pipeline.  Each component has its own variables and its   *)
(* own specification; a component's specification leaves the variables of  *)
(* the other components unchanged.                                         *)
(***************************************************************************)
EXTENDS Integers, Sequences, FiniteSets, TLC

VARIABLES
    \* ---- overlay_tiles::Operation and one call on it
    sources,      \* Operation.sources: the children's parameters, in declaration order
    parameters,   \* Operation.parameters
    ov_pc,        \* position of the running call
    td_coord,     \* get_tile_data: the requested coord
    td_i,         \* get_tile_data: the source the loop is at
    td_log,       \* get_tile_data: the sources consulted so far, with their answers
    td_result,    \* get_tile_data: the returned Result<Option<Blob>>
    st_i,         \* get_bbox_tile_stream: the source the chunk task is at
    st_seen,      \* get_bbox_tile_stream: the coords the current source's stream has yielded
    produced,     \* get_bbox_tile_stream: per coord, the first tile a source's stream yielded for it
    tiles,        \* get_bbox_tile_stream: the chunk task's Vec<(TileCoord3, Blob)>
    st_panic,     \* get_bbox_tile_stream: the call that panicked in the chunk task, if one did
    st_out,       \* get_bbox_tile_stream: the chunk's emitted tiles
    \* ---- DataConverter and one run of it
    cv_pc,        \* position: building, built, running
    cv_args,      \* the arguments of new_tile_recompressor
    pipeline,     \* DataConverter.pipeline
    cv_in,        \* run: the blob handed in
    data,         \* run: the local variable data
    cv_k,         \* run: the pipeline function the loop is at
    \* ---- vectortiles_update_properties::Operation and the calls on it
    vt_pc,          \* position: building, built, in a call
    args,           \* Runner.args
    properties_map, \* Runner.properties_map
    vt_parameters,  \* Operation.parameters (Runner.tile_compression is its tile_compression)
    vt_src,         \* the answer of source.get_tile_data, or the tiles of the source's stream
    vt_out,         \* get_tile_data: the returned Result<Option<Blob>>
    vt_out2,        \* the result of the transform run on its own output
    vt_stream,      \* get_bbox_tile_stream: the tiles delivered
    vt_rows,        \* Operation::new: the rows read_csv_file returned
    \* ---- server::source::TileContainer and one request to it
    hp_pc,          \* position: waiting, a request in hand, answered
    reader,         \* TileContainer.reader: its parameters, its meta and the coords it holds
    tile_mime,      \* TileContainer.tile_mime
    precompression, \* TileContainer.precompression
    path,           \* get_data: the path segments
    accept,         \* get_data: the accepted encodings
    response,       \* get_data: the response, or the panic that ended the call
    \* ---- overlay_tiles::Operation::new
    on_pc,          \* position: called, in the loop, built, failed
    on_built,       \* whether factory.build_pipeline succeeded for every child
    on_sources,     \* the local sources: the children's parameters, in declaration order
    on_i,           \* the source the loop is at
    on_format,      \* the local tile_format
    on_compression, \* the local tile_compression
    on_pyramid,     \* the local pyramid
    on_result,      \* the returned Result: the parameters of the new Operation
    \* ---- vdl::parse_vdl and one call of it
    vdl_pc,         \* position: called, parse_pipeline done, returned
    vdl_doc,        \* the document: its declared properties, children block and tail
    vdl_input,      \* the input: the document's text, as its sequence of characters
    vdl_parsed,     \* the result of parse_pipeline(input)
    vdl_result,     \* the returned Result<VDLPipeline>
    \* ---- types::TileBBoxPyramide and the calls on it
    py_pc,          \* position: built or changed, get_zoom_range returned
    level_bbox,     \* TileBBoxPyramide.level_bbox, indexed by level from 0
    py_range,       \* the range get_zoom_range returned
    \* ---- pipeline::PipelineReader and the calls on it
    pr_pc,          \* position: built, a call returned, a call panicked
    operation,      \* PipelineReader.operation: the root's kind, parameters, meta and tiles
    pr_parameters,  \* PipelineReader.parameters
    pr_call,        \* the last call on the reader, with its argument
    pr_result,      \* what the last call returned, or the panic that ended it
    \* ---- directory::TileConverter and one convert_from
    dc_pc,          \* position: called, in the loop over the levels, returned
    dc_reader,      \* the reader: its parameters, its get_meta answer, its stream of each level
    dc_config,      \* TileConverter.config, finalized
    dc_z,           \* the level the loop over iter_levels is at, as its index
    dc_i,           \* the entry the loop over the level's stream is at
    dc_log,         \* the files written so far, in the order written
    dc_failed,      \* the call whose error ended convert_from
    dc_result,      \* the returned Result
    \* ---- server::sources::static_source_folder::Folder and one get_data
    sf_pc,          \* position: waiting, answered
    sf_path,        \* get_data: the path segments
    sf_response     \* get_data: the returned Option<SourceResponse>

ovVars == <<sources, parameters, ov_pc, td_coord, td_i, td_log, td_result, st_i, st_seen, produced, tiles, st_panic, st_out>>

cvVars == <<cv_pc, cv_args, pipeline, cv_in, data, cv_k>>

vtVars == <<vt_pc, args, properties_map, vt_parameters, vt_src, vt_out, vt_out2, vt_stream, vt_rows>>

hpVars == <<hp_pc, reader, tile_mime, precompression, path, accept, response>>

onVars == <<on_pc, on_built, on_sources, on_i, on_format, on_compression, on_pyramid, on_result>>

vdlVars == <<vdl_pc, vdl_doc, vdl_input, vdl_parsed, vdl_result>>

pyVars == <<py_pc, level_bbox, py_range>>

prVars == <<pr_pc, operation, pr_parameters, pr_call, pr_result>>

dcVars == <<dc_pc, dc_reader, dc_config, dc_z, dc_i, dc_log, dc_failed, dc_result>>

sfVars == <<sf_pc, sf_path, sf_response>>

vars == <<ovVars, cvVars, vtVars, hpVars, onVars, vdlVars, pyVars, prVars, dcVars, sfVars>>

\* the variables of the other components
ovOthers == <<cvVars, vtVars, hpVars, onVars, vdlVars, pyVars, prVars, dcVars, sfVars>>

cvOthers == <<ovVars, vtVars, hpVars, onVars, vdlVars, pyVars, prVars, dcVars, sfVars>>

vtOthers == <<ovVars, cvVars, hpVars, onVars, vdlVars, pyVars, prVars, dcVars, sfVars>>

hpOthers == <<ovVars, cvVars, vtVars, onVars, vdlVars, pyVars, prVars, dcVars, sfVars>>

onOthers == <<ovVars, cvVars, vtVars, hpVars, vdlVars, pyVars, prVars, dcVars, sfVars>>

vdlOthers == <<ovVars, cvVars, vtVars, hpVars, onVars, pyVars, prVars, dcVars, sfVars>>

pyOthers == <<ovVars, cvVars, vtVars, hpVars, onVars, vdlVars, prVars, dcVars, sfVars>>

prOthers == <<ovVars, cvVars, vtVars, hpVars, onVars, vdlVars, pyVars, dcVars, sfVars>>

dcOthers == <<ovVars, cvVars, vtVars, hpVars, onVars, vdlVars, pyVars, prVars, sfVars>>

sfOthers == <<ovVars, cvVars, vtVars, hpVars, onVars, vdlVars, pyVars, prVars, dcVars>>

(***************************************************************************)
(* Option and Result values.                                               *)
(***************************************************************************)
None == <<>>

Some(v) == <<v>>

IsSome(o) == Len(o) = 1

Unwrap(o) == o[1]

Ok(v) == [ok |-> TRUE, val |-> v]

Err == [ok |-> FALSE, val |-> <<>>]

(***************************************************************************)
(* Blobs and the compression codecs.  A blob is its payload and the stack  *)
(* of compressions applied to it, the outermost last.                      *)
(***************************************************************************)
TileCompression == {"Uncompressed", "Gzip", "Brotli"}

RawBlob(p) == [payload |-> p, enc |-> <<>>]

\* bytes that are no valid gzip or brotli stream
JunkBlob(p) == [payload |-> p, enc |-> <<"Junk">>]

compress(blob, c) ==
    IF c = "Uncompressed" THEN blob
    ELSE [blob EXCEPT !.enc = Append(@, c)]

decompress(blob, c) ==
    IF c = "Uncompressed" THEN Ok(blob)
    ELSE IF Len(blob.enc) > 0 /\ blob.enc[Len(blob.enc)] = c
         THEN Ok([blob EXCEPT !.enc = SubSeq(@, 1, Len(@) - 1)])
         ELSE Err

recompress(blob, input, output) ==
    LET d == decompress(blob, input)
    IN  IF d.ok THEN Ok(compress(d.val, output)) ELSE Err

(***************************************************************************)
(* Bounds of the overlay model.                                            *)
(***************************************************************************)
MaxChildren == 2

ChunkW == 3

(***************************************************************************)
(* One grid chunk: a single row of ChunkW tiles.                           *)
(***************************************************************************)
ChunkBBox == [x_min |-> 4, x_max |-> 4 + ChunkW - 1, y_min |-> 7, y_max |-> 7]

ChunkCoords == {[x |-> x, y |-> y] : x \in ChunkBBox.x_min .. ChunkBBox.x_max,
                                     y \in ChunkBBox.y_min .. ChunkBBox.y_max}

get_tile_index3(bbox, coord) ==
    (coord.y - bbox.y_min) * (bbox.x_max - bbox.x_min + 1) + (coord.x - bbox.x_min)

(***************************************************************************)
(* Vec operations the chunk task uses.  Vec indices start at 0.            *)
(***************************************************************************)
\* VecGetIsNone with the slot test dropped
VecGetIsNone_Always(v, index) == TRUE

VecGetIsNone(v, index) == index >= Len(v)

VecInsertPanics(v, index) == index > Len(v)

VecInsert(v, index, e) ==
    SubSeq(v, 1, index) \o <<e>> \o SubSeq(v, index + 1, Len(v))

(***************************************************************************)
(* The components at rest, as the other components' specifications hold    *)
(* them.                                                                   *)
(***************************************************************************)
IdleOverlay ==
    /\ sources = <<>>
    /\ parameters = <<>>
    /\ ov_pc = "idle"
    /\ td_coord = None
    /\ td_i = 0
    /\ td_log = <<>>
    /\ td_result = Err
    /\ st_i = 0
    /\ st_seen = {}
    /\ produced = <<>>
    /\ tiles = <<>>
    /\ st_panic = "none"
    /\ st_out = <<>>

IdleConv ==
    /\ cv_pc = "idle"
    /\ cv_args = <<>>
    /\ pipeline = <<>>
    /\ cv_in = <<>>
    /\ data = <<>>
    /\ cv_k = 0

IdleVt ==
    /\ vt_pc = "idle"
    /\ args = <<>>
    /\ properties_map = <<>>
    /\ vt_parameters = <<>>
    /\ vt_src = <<>>
    /\ vt_out = Err
    /\ vt_out2 = Err
    /\ vt_stream = <<>>
    /\ vt_rows = <<>>

IdleHttp ==
    /\ hp_pc = "idle"
    /\ reader = <<>>
    /\ tile_mime = ""
    /\ precompression = ""
    /\ path = <<>>
    /\ accept = {}
    /\ response = <<>>

IdleOverlayNew ==
    /\ on_pc = "idle"
    /\ on_built = FALSE
    /\ on_sources = <<>>
    /\ on_i = 0
    /\ on_format = ""
    /\ on_compression = ""
    /\ on_pyramid = <<>>
    /\ on_result = Err

IdleVdl ==
    /\ vdl_pc = "idle"
    /\ vdl_doc = <<>>
    /\ vdl_input = <<>>
    /\ vdl_parsed = <<>>
    /\ vdl_result = Err

IdlePyramide ==
    /\ py_pc = "idle"
    /\ level_bbox = <<>>
    /\ py_range = None

IdlePipelineReader ==
    /\ pr_pc = "idle"
    /\ operation = <<>>
    /\ pr_parameters = <<>>
    /\ pr_call = <<>>
    /\ pr_result = <<>>

IdleDirConverter ==
    /\ dc_pc = "idle"
    /\ dc_reader = <<>>
    /\ dc_config = <<>>
    /\ dc_z = 0
    /\ dc_i = 0
    /\ dc_log = <<>>
    /\ dc_failed = "none"
    /\ dc_result = None

IdleStaticFolder ==
    /\ sf_pc = "idle"
    /\ sf_path = <<>>
    /\ sf_response = None

(***************************************************************************)
(* overlay_tiles::Operation::new                                           *)
(***************************************************************************)
RECURSIVE FoldCompression(_, _, _)
FoldCompression(srcs, i, tile_compression) ==
    IF i > Len(srcs) THEN tile_compression
    ELSE FoldCompression(srcs, i + 1,
            IF srcs[i].tile_compression # tile_compression
            THEN "Uncompressed" ELSE tile_compression)

OverlayNew(srcs) ==
    IF Len(srcs) = 0 THEN Err
    ELSE IF \E i \in 1..Len(srcs) : srcs[i].tile_format # srcs[1].tile_format THEN Err
    ELSE Ok([tile_format |-> srcs[1].tile_format,
             tile_compression |-> FoldCompression(srcs, 1, srcs[1].tile_compression)])

ChildParameters == [tile_format : {"PBF"}, tile_compression : TileCompression]

ChildLists == UNION {[1..n -> ChildParameters] : n \in 1..MaxChildren}

\* the blob a child holds for a coord: well-formed for the child's declared
\* compression, or bytes that do not decompress
ChildBlob(c, coord, good) ==
    IF good THEN compress(RawBlob(<<c, coord>>), sources[c].tile_compression)
    ELSE JunkBlob(<<c, coord>>)

NoneProduced == [coord \in ChunkCoords |-> None]

InitOverlay ==
    /\ sources \in ChildLists
    /\ OverlayNew(sources).ok
    /\ parameters = OverlayNew(sources).val
    /\ ov_pc = "ready"
    /\ td_coord = None
    /\ td_i = 0
    /\ td_log = <<>>
    /\ td_result = Err
    /\ st_i = 0
    /\ st_seen = {}
    /\ produced = NoneProduced
    /\ tiles = <<>>
    /\ st_panic = "none"
    /\ st_out = <<>>
    /\ IdleConv
    /\ IdleVt
    /\ IdleHttp
    /\ IdleOverlayNew
    /\ IdleVdl
    /\ IdlePyramide
    /\ IdlePipelineReader
    /\ IdleDirConverter
    /\ IdleStaticFolder

(***************************************************************************)
(* overlay_tiles::Operation::get_tile_data                                 *)
(***************************************************************************)
TileDataBegin ==
    /\ ov_pc = "ready"
    /\ ov_pc' = "tile"
    /\ \E coord \in ChunkCoords : td_coord' = Some(coord)
    /\ td_i' = 1
    /\ td_log' = <<>>
    /\ UNCHANGED <<sources, parameters, td_result, st_i, st_seen, produced, tiles, st_panic, st_out>>
    /\ UNCHANGED ovOthers

\* the answers a source can give for the coord
SourceAnswers(c, coord) ==
    {Err, Ok(None), Ok(Some(ChildBlob(c, coord, TRUE))), Ok(Some(ChildBlob(c, coord, FALSE)))}

\* TileDataIter with the loop ending at the first source that has no tile
TileDataIter_StopAtNone(result) ==
    IF ~result.ok THEN [done |-> TRUE, ret |-> Err]
    ELSE IF IsSome(result.val)
         THEN LET r == recompress(Unwrap(result.val),
                                  sources[td_i].tile_compression,
                                  parameters.tile_compression)
              IN  [done |-> TRUE, ret |-> IF r.ok THEN Ok(Some(r.val)) ELSE Err]
         ELSE [done |-> TRUE, ret |-> Ok(None)]

\* one iteration of the loop over self.sources, given the source's answer
TileDataIter(result) ==
    IF ~result.ok THEN [done |-> TRUE, ret |-> Err]
    ELSE IF IsSome(result.val)
         THEN LET r == recompress(Unwrap(result.val),
                                  sources[td_i].tile_compression,
                                  parameters.tile_compression)
              IN  [done |-> TRUE, ret |-> IF r.ok THEN Ok(Some(r.val)) ELSE Err]
         ELSE [done |-> FALSE, ret |-> Err]

TileDataConsult ==
    /\ ov_pc = "tile"
    /\ td_i <= Len(sources)
    /\ \E result \in SourceAnswers(td_i, Unwrap(td_coord)) :
       LET it == TileDataIter(result)
       IN  /\ td_log' = Append(td_log, [source |-> td_i, result |-> result])
           /\ IF it.done
              THEN /\ td_result' = it.ret
                   /\ ov_pc' = "tile_done"
                   /\ td_i' = td_i
              ELSE /\ td_i' = td_i + 1
                   /\ UNCHANGED <<td_result, ov_pc>>
    /\ UNCHANGED <<sources, parameters, td_coord, st_i, st_seen, produced, tiles, st_panic, st_out>>
    /\ UNCHANGED ovOthers

TileDataNone ==
    /\ ov_pc = "tile"
    /\ td_i > Len(sources)
    /\ td_result' = Ok(None)
    /\ ov_pc' = "tile_done"
    /\ UNCHANGED <<sources, parameters, td_coord, td_i, td_log, st_i, st_seen, produced, tiles, st_panic, st_out>>
    /\ UNCHANGED ovOthers

(***************************************************************************)
(* overlay_tiles::Operation::get_bbox_tile_stream, the task of one chunk   *)
(***************************************************************************)
StreamBegin ==
    /\ ov_pc = "ready"
    /\ ov_pc' = "stream"
    /\ st_i' = 1
    /\ st_seen' = {}
    /\ produced' = NoneProduced
    /\ tiles' = <<>>
    /\ UNCHANGED <<sources, parameters, td_coord, td_i, td_log, td_result, st_panic, st_out>>
    /\ UNCHANGED ovOthers

\* the for_each_sync callback on one (coord, blob) of the current source
StreamCallback(v, coord, blob) ==
    LET index == get_tile_index3(ChunkBBox, coord)
    IN  IF VecGetIsNone(v, index)
        THEN LET r == recompress(blob, sources[st_i].tile_compression,
                                 parameters.tile_compression)
             IN  IF ~r.ok THEN [panic |-> "Result::unwrap", tiles |-> v]
                 ELSE IF VecInsertPanics(v, index) THEN [panic |-> "Vec::insert", tiles |-> v]
                 ELSE [panic |-> "none",
                       tiles |-> VecInsert(v, index, [coord |-> coord, blob |-> r.val])]
        ELSE [panic |-> "none", tiles |-> v]

StreamTile ==
    /\ ov_pc = "stream"
    /\ st_i <= Len(sources)
    /\ \E coord \in ChunkCoords, good \in BOOLEAN :
          /\ coord \notin st_seen
          /\ LET blob == ChildBlob(st_i, coord, good)
                 cb == StreamCallback(tiles, coord, blob)
             IN  /\ st_seen' = st_seen \cup {coord}
                 /\ produced' = IF IsSome(produced[coord]) THEN produced
                                ELSE [produced EXCEPT ![coord] = Some([source |-> st_i, blob |-> blob])]
                 /\ tiles' = cb.tiles
                 /\ st_panic' = cb.panic
                 /\ ov_pc' = IF cb.panic # "none" THEN "panicked" ELSE "stream"
    /\ UNCHANGED <<sources, parameters, td_coord, td_i, td_log, td_result, st_i, st_out>>
    /\ UNCHANGED ovOthers

StreamSourceEnd ==
    /\ ov_pc = "stream"
    /\ st_i <= Len(sources)
    /\ st_i' = st_i + 1
    /\ st_seen' = {}
    /\ UNCHANGED <<sources, parameters, ov_pc, td_coord, td_i, td_log, td_result, produced, tiles, st_panic, st_out>>
    /\ UNCHANGED ovOthers

StreamChunkDone ==
    /\ ov_pc = "stream"
    /\ st_i > Len(sources)
    /\ st_out' = tiles
    /\ ov_pc' = "stream_done"
    /\ UNCHANGED <<sources, parameters, td_coord, td_i, td_log, td_result, st_i, st_seen, produced, tiles, st_panic>>
    /\ UNCHANGED ovOthers

NextOverlay ==
    \/ TileDataBegin
    \/ TileDataConsult
    \/ TileDataNone
    \/ StreamBegin
    \/ StreamTile
    \/ StreamSourceEnd
    \/ StreamChunkDone

SpecOverlay == InitOverlay /\ [][NextOverlay]_vars

(***************************************************************************)
(* Properties of the overlay operation.                                    *)
(***************************************************************************)
\* the blob is a well-formed tile of source c
WellFormed(blob) == blob.enc # <<"Junk">>

\* what the overlay must hand out for a tile taken from source c
Recompressed(c, blob) ==
    IF WellFormed(blob)
    THEN Ok(compress(RawBlob(blob.payload), parameters.tile_compression))
    ELSE recompress(blob, sources[c].tile_compression, parameters.tile_compression)

LogIsNone(k) == td_log[k].result = Ok(None)

LogIsSome(k) == td_log[k].result.ok /\ IsSome(td_log[k].result.val)

\* C1: get_tile_data consults the sources in declaration order and stops at
\* the first one that answers Some; the result is that source's tile
\* recompressed from the source's compression to the overlay's (an error if
\* that fails), no later source is consulted, and the result is None only
\* if every source answered None.
C1_OverlayFirstWins ==
    ov_pc = "tile_done" =>
        /\ \A k \in 1..Len(td_log) : td_log[k].source = k
        /\ \A k \in 1..(Len(td_log) - 1) : LogIsNone(k)
        /\ \A k \in 1..Len(td_log) :
              LogIsSome(k) =>
                 /\ k = Len(td_log)
                 /\ LET r == Recompressed(k, Unwrap(td_log[k].result.val))
                    IN  td_result = IF r.ok THEN Ok(Some(r.val)) ELSE Err
        /\ (td_result = Ok(None)) <=>
              (Len(td_log) = Len(sources) /\ \A k \in 1..Len(td_log) : LogIsNone(k))

\* the first of two sources has the tile, in another compression than the
\* overlay's, and the second source was not consulted
C1_Witness ==
    /\ ov_pc = "tile_done"
    /\ Len(sources) = 2
    /\ Len(td_log) = 1
    /\ LogIsSome(1)
    /\ sources[1].tile_compression # parameters.tile_compression
    /\ td_result.ok
    /\ IsSome(td_result.val)
    /\ Unwrap(td_result.val).enc = <<>>

EmittedOnce(v) == \A i, j \in 1..Len(v) : i # j => v[i].coord # v[j].coord

EmittedFromFirst(v) ==
    \A i \in 1..Len(v) :
        LET p == produced[v[i].coord]
        IN  /\ IsSome(p)
            /\ Ok(v[i].blob) = Recompressed(Unwrap(p).source, Unwrap(p).blob)

\* C2: in the chunk's accumulator and in the chunk's emitted tiles every coord
\* occurs at most once, and its blob is the tile of the earliest source whose
\* stream yielded that coord, recompressed to the overlay's compression.
C2_StreamFirstWins ==
    /\ EmittedOnce(tiles)
    /\ EmittedFromFirst(tiles)
    /\ EmittedOnce(st_out)
    /\ EmittedFromFirst(st_out)

\* the second source yields a coord the first source has filled, and the
\* accumulator keeps the first source's tile, recompressed
C2_Witness ==
    /\ ov_pc = "stream"
    /\ st_i = 2
    /\ \E coord \in st_seen :
          /\ IsSome(produced[coord])
          /\ Unwrap(produced[coord]).source = 1
          /\ \E i \in 1..Len(tiles) :
                /\ tiles[i].coord = coord
                /\ tiles[i].blob.payload = <<1, coord>>
                /\ sources[1].tile_compression # parameters.tile_compression

ProducedCoords == {coord \in ChunkCoords : IsSome(produced[coord])}

AllProducedWellFormed ==
    \A coord \in ProducedCoords : WellFormed(Unwrap(produced[coord]).blob)

\* C3: with well-formed tiles only, the chunk task never fails, and when it
\* completes it has emitted every coord some source's stream yielded.
C3_StreamEmitsUnion ==
    AllProducedWellFormed =>
        /\ ov_pc # "panicked"
        /\ ov_pc = "stream_done" => {st_out[i].coord : i \in 1..Len(st_out)} = ProducedCoords

\* C4 (overlay stream): a tile whose recompression fails is left out and the
\* chunk task goes on.
C4_OverlayStreamSurvivesTileError == st_panic # "Result::unwrap"

(***************************************************************************)
(* DataConverter (opencloudtiles/lib/convert.rs).  A pipeline is a list of *)
(* FnConv, named here by the functions they call.  FnConv returns a Blob,  *)
(* so a function that cannot read its input panics.                        *)
(***************************************************************************)
TileFormat == {"PBF", "PNG", "JPG", "WEBP"}

Precompression == {"Uncompressed", "Gzip", "Brotli"}

\* a tile of format form, its image encoded losslessly or not
TileBlob(form, lossy) == RawBlob([form |-> form, lossy |-> lossy])

\* decode an image of format from and encode it as format to
ImageConvert(blob, from, to, lossy) ==
    IF blob.enc = <<>> /\ blob.payload.form = from
    THEN Ok(TileBlob(to, blob.payload.lossy \/ lossy))
    ELSE Err

ApplyFnConv(f, blob) ==
    CASE f = "decompress_gzip" -> decompress(blob, "Gzip")
      [] f = "decompress_brotli" -> decompress(blob, "Brotli")
      [] f = "compress_gzip" -> Ok(compress(blob, "Gzip"))
      [] f = "compress_brotli" -> Ok(compress(blob, "Brotli"))
      [] f = "img2jpg(png2img)" -> ImageConvert(blob, "PNG", "JPG", TRUE)
      [] f = "img2png(png2img)" -> ImageConvert(blob, "PNG", "PNG", FALSE)
      [] f = "img2webplossless(png2img)" -> ImageConvert(blob, "PNG", "WEBP", FALSE)
      [] f = "img2png(jpg2img)" -> ImageConvert(blob, "JPG", "PNG", FALSE)
      [] f = "img2webp(jpg2img)" -> ImageConvert(blob, "JPG", "WEBP", TRUE)
      [] f = "img2jpg(webp2img)" -> ImageConvert(blob, "WEBP", "JPG", TRUE)
      [] f = "img2png(webp2img)" -> ImageConvert(blob, "WEBP", "PNG", FALSE)

Todo == [todo |-> TRUE, conv |-> None]

Conv(o) == [todo |-> FALSE, conv |-> o]

\* FormatConverterOption with PBF passed through to every format
FormatConverterOption_PbfPassThrough(src_form, dst_form, force_recompress) ==
    IF (src_form # dst_form) \/ force_recompress
    THEN CASE src_form = "PNG" /\ dst_form = "JPG" -> Conv(Some("img2jpg(png2img)"))
           [] src_form = "PNG" /\ dst_form = "PNG" -> Conv(Some("img2png(png2img)"))
           [] src_form = "PNG" /\ dst_form = "WEBP" -> Conv(Some("img2webplossless(png2img)"))
           [] src_form = "PNG" /\ dst_form = "PBF" -> Todo
           [] src_form = "JPG" /\ dst_form = "JPG" -> Conv(None)
           [] src_form = "JPG" /\ dst_form = "PNG" -> Conv(Some("img2png(jpg2img)"))
           [] src_form = "JPG" /\ dst_form = "WEBP" -> Conv(Some("img2webp(jpg2img)"))
           [] src_form = "JPG" /\ dst_form = "PBF" -> Todo
           [] src_form = "WEBP" /\ dst_form = "JPG" -> Conv(Some("img2jpg(webp2img)"))
           [] src_form = "WEBP" /\ dst_form = "PNG" -> Conv(Some("img2png(webp2img)"))
           [] src_form = "WEBP" /\ dst_form = "WEBP" -> Conv(None)
           [] src_form = "WEBP" /\ dst_form = "PBF" -> Todo
           [] src_form = "PBF" -> Conv(None)
    ELSE Conv(None)

\* FormatConverterOption with the test of src_form # dst_form and force dropped
FormatConverterOption_Always(src_form, dst_form, force_recompress) ==
    CASE src_form = "PNG" /\ dst_form = "JPG" -> Conv(Some("img2jpg(png2img)"))
      [] src_form = "PNG" /\ dst_form = "PNG" -> Conv(Some("img2png(png2img)"))
      [] src_form = "PNG" /\ dst_form = "WEBP" -> Conv(Some("img2webplossless(png2img)"))
      [] src_form = "PNG" /\ dst_form = "PBF" -> Todo
      [] src_form = "JPG" /\ dst_form = "JPG" -> Conv(None)
      [] src_form = "JPG" /\ dst_form = "PNG" -> Conv(Some("img2png(jpg2img)"))
      [] src_form = "JPG" /\ dst_form = "WEBP" -> Conv(Some("img2webp(jpg2img)"))
      [] src_form = "JPG" /\ dst_form = "PBF" -> Todo
      [] src_form = "WEBP" /\ dst_form = "JPG" -> Conv(Some("img2jpg(webp2img)"))
      [] src_form = "WEBP" /\ dst_form = "PNG" -> Conv(Some("img2png(webp2img)"))
      [] src_form = "WEBP" /\ dst_form = "WEBP" -> Conv(None)
      [] src_form = "WEBP" /\ dst_form = "PBF" -> Todo
      [] src_form = "PBF" /\ dst_form = "PBF" -> Conv(None)
      [] src_form = "PBF" /\ dst_form # "PBF" -> Todo

\* format_converter_option of new_tile_recompressor; todo!() panics
FormatConverterOption(src_form, dst_form, force_recompress) ==
    IF (src_form # dst_form) \/ force_recompress
    THEN CASE src_form = "PNG" /\ dst_form = "JPG" -> Conv(Some("img2jpg(png2img)"))
           [] src_form = "PNG" /\ dst_form = "PNG" -> Conv(Some("img2png(png2img)"))
           [] src_form = "PNG" /\ dst_form = "WEBP" -> Conv(Some("img2webplossless(png2img)"))
           [] src_form = "PNG" /\ dst_form = "PBF" -> Todo
           [] src_form = "JPG" /\ dst_form = "JPG" -> Conv(None)
           [] src_form = "JPG" /\ dst_form = "PNG" -> Conv(Some("img2png(jpg2img)"))
           [] src_form = "JPG" /\ dst_form = "WEBP" -> Conv(Some("img2webp(jpg2img)"))
           [] src_form = "JPG" /\ dst_form = "PBF" -> Todo
           [] src_form = "WEBP" /\ dst_form = "JPG" -> Conv(Some("img2jpg(webp2img)"))
           [] src_form = "WEBP" /\ dst_form = "PNG" -> Conv(Some("img2png(webp2img)"))
           [] src_form = "WEBP" /\ dst_form = "WEBP" -> Conv(None)
           [] src_form = "WEBP" /\ dst_form = "PBF" -> Todo
           [] src_form = "PBF" /\ dst_form = "PBF" -> Conv(None)
           [] src_form = "PBF" /\ dst_form # "PBF" -> Todo
    ELSE Conv(None)

DecompressFn(src_comp) ==
    CASE src_comp = "Uncompressed" -> <<>>
      [] src_comp = "Gzip" -> <<"decompress_gzip">>
      [] src_comp = "Brotli" -> <<"decompress_brotli">>

CompressFn(dst_comp) ==
    CASE dst_comp = "Uncompressed" -> <<>>
      [] dst_comp = "Gzip" -> <<"compress_gzip">>
      [] dst_comp = "Brotli" -> <<"compress_brotli">>

\* DataConverter::new_tile_recompressor: the pipeline built, or a panic
new_tile_recompressor(src_form, src_comp, dst_form, dst_comp, force_recompress) ==
    LET format_converter_option == FormatConverterOption(src_form, dst_form, force_recompress)
    IN  IF format_converter_option.todo THEN [panic |-> TRUE, pipeline |-> <<>>]
        ELSE IF (src_comp = dst_comp) /\ ~force_recompress
             THEN [panic |-> FALSE, pipeline |-> format_converter_option.conv]
             ELSE [panic |-> FALSE,
                   pipeline |-> DecompressFn(src_comp) \o format_converter_option.conv
                                \o CompressFn(dst_comp)]

RecompressorArgs ==
    [src_form : TileFormat, src_comp : Precompression, dst_form : TileFormat,
     dst_comp : Precompression, force_recompress : BOOLEAN]

\* the blobs handed to run
ConvBlobs == {compress(TileBlob(f, FALSE), c) : f \in TileFormat, c \in Precompression}

InitConv ==
    /\ cv_pc = "new"
    /\ cv_args = <<>>
    /\ pipeline = <<>>
    /\ cv_in = <<>>
    /\ data = <<>>
    /\ cv_k = 0
    /\ IdleOverlay
    /\ IdleVt
    /\ IdleHttp
    /\ IdleOverlayNew
    /\ IdleVdl
    /\ IdlePyramide
    /\ IdlePipelineReader
    /\ IdleDirConverter
    /\ IdleStaticFolder

ConvNew ==
    /\ cv_pc = "new"
    /\ \E a \in RecompressorArgs :
          LET r == new_tile_recompressor(a.src_form, a.src_comp, a.dst_form, a.dst_comp,
                                         a.force_recompress)
          IN  /\ cv_args' = a
              /\ pipeline' = r.pipeline
              /\ cv_pc' = IF r.panic THEN "new_panicked" ELSE "built"
    /\ UNCHANGED <<cv_in, data, cv_k>>
    /\ UNCHANGED cvOthers

\* DataConverter::run, entered with a blob
ConvRunBegin ==
    /\ cv_pc = "built"
    /\ \E x \in ConvBlobs :
          /\ cv_in' = x
          /\ data' = x
    /\ cv_k' = 1
    /\ cv_pc' = "running"
    /\ UNCHANGED <<cv_args, pipeline>>
    /\ UNCHANGED cvOthers

\* DataConverter::run, one turn of the loop
ConvRunStep ==
    /\ cv_pc = "running"
    /\ cv_k <= Len(pipeline)
    /\ LET r == ApplyFnConv(pipeline[cv_k], data)
       IN  IF r.ok
           THEN /\ data' = r.val
                /\ cv_k' = cv_k + 1
                /\ cv_pc' = "running"
           ELSE /\ cv_pc' = "run_panicked"
                /\ UNCHANGED <<data, cv_k>>
    /\ UNCHANGED <<cv_args, pipeline, cv_in>>
    /\ UNCHANGED cvOthers

\* DataConverter::run returns data
ConvRunEnd ==
    /\ cv_pc = "running"
    /\ cv_k > Len(pipeline)
    /\ cv_pc' = "ran"
    /\ UNCHANGED <<cv_args, pipeline, cv_in, data, cv_k>>
    /\ UNCHANGED cvOthers

NextConv ==
    \/ ConvNew
    \/ ConvRunBegin
    \/ ConvRunStep
    \/ ConvRunEnd

SpecConv == InitConv /\ [][NextConv]_vars

(***************************************************************************)
(* Properties of DataConverter.                                            *)
(***************************************************************************)
ConvBuilt == cv_pc \in {"built", "running", "run_panicked", "ran"}

ConvCalled == ConvBuilt \/ cv_pc = "new_panicked"

IdentityCase(a) ==
    a.src_form = a.dst_form /\ a.src_comp = a.dst_comp /\ ~a.force_recompress

\* C8: new_tile_recompressor(F, C, F, C, false) returns a converter with an
\* empty pipeline, and run hands back the blob it was given.
C8_ConverterIdentity ==
    (ConvCalled /\ IdentityCase(cv_args)) =>
        /\ ConvBuilt
        /\ pipeline = <<>>
        /\ cv_pc # "run_panicked"
        /\ cv_pc = "ran" => data = cv_in

\* run has returned a gzip-compressed blob under (PNG, Gzip, PNG, Gzip, false)
C8_Witness ==
    /\ cv_pc = "ran"
    /\ IdentityCase(cv_args)
    /\ cv_args.src_form = "PNG"
    /\ cv_args.src_comp = "Gzip"
    /\ cv_in.enc = <<"Gzip">>
    /\ data = cv_in

IsImageConversion(f) ==
    f \notin {"decompress_gzip", "decompress_brotli", "compress_gzip", "compress_brotli"}

\* C9: outside the identity case the pipeline is: decompress from src_comp,
\* then the format conversion if there is one, then compress to dst_comp;
\* and on a tile of the source format and compression no format conversion
\* is applied to data that is still compressed.
C9_DecompressConvertCompress ==
    (ConvBuilt /\ ~IdentityCase(cv_args)) =>
        /\ pipeline = DecompressFn(cv_args.src_comp)
                      \o FormatConverterOption(cv_args.src_form, cv_args.dst_form,
                                               cv_args.force_recompress).conv
                      \o CompressFn(cv_args.dst_comp)
        /\ (/\ cv_pc = "running"
            /\ cv_in = compress(TileBlob(cv_args.src_form, FALSE), cv_args.src_comp)
            /\ cv_k <= Len(pipeline)
            /\ IsImageConversion(pipeline[cv_k])) => data.enc = <<>>

UnsupportedPair(a) == a.src_form # a.dst_form /\ "PBF" \in {a.src_form, a.dst_form}

\* C10: for a format pair without a conversion (one side PBF, the other a
\* raster format) new_tile_recompressor fails and returns no converter, so
\* no run is ever made for such a pair.
C10_UnsupportedFailsAtBuild ==
    (ConvCalled /\ UnsupportedPair(cv_args)) =>
        /\ cv_pc = "new_panicked"
        /\ pipeline = <<>>

\* the build of a PNG to PBF converter has panicked
C10_Witness ==
    /\ cv_pc = "new_panicked"
    /\ cv_args.src_form = "PNG"
    /\ cv_args.dst_form = "PBF"
    /\ UnsupportedPair(cv_args)

(***************************************************************************)
(* vectortiles_update_properties.  A GeoProperties is a map from keys to   *)
(* values; a feature is its properties as its tag_ids encode them (no      *)
(* tag_ids: the empty map); a layer is a name and its features; a vector   *)
(* tile is its layers.                                                     *)
(***************************************************************************)
MaxFeatures == 2

MaxRows == 2

MaxStreamTiles == 2

\* GeoValue::to_string: the number 1 and the string "1" both give "1"
to_string(v) ==
    CASE v = "i1" -> "1"
      [] v = "s1" -> "1"
      [] v = "i2" -> "2"
      [] v = "s2" -> "2"
      [] OTHER -> v

NoProperties == <<>>

MapOf(f) == [k \in DOMAIN f |-> f[k]]

\* GeoProperties::update: insert or overwrite by key
PropUpdate(prop, new_prop) ==
    [k \in (DOMAIN prop) \cup (DOMAIN new_prop) |->
        IF k \in DOMAIN new_prop THEN new_prop[k] ELSE prop[k]]

\* GeoProperties::remove
PropRemove(prop, key) == [k \in (DOMAIN prop) \ {key} |-> prop[k]]

\* the properties a feature's tag_ids decode to, and the tag_ids properties encode to
DecodeTagIds(tag_ids) == IF DOMAIN tag_ids = {} THEN None ELSE Some(tag_ids)

EncodeTagIds(properties) == IF IsSome(properties) THEN MapOf(Unwrap(properties)) ELSE NoProperties

FeatureKinds ==
    { NoProperties,
      MapOf([tile_name |-> "Madrid"]),
      MapOf([tile_id |-> "i1", tile_name |-> "Madrid"]),
      MapOf([tile_id |-> "i2"]) }

RowKinds ==
    { MapOf([data_id |-> "s1", data_name |-> "Berlin", tile_name |-> "Berlin"]),
      MapOf([data_id |-> "i1", tile_id |-> "i2"]),
      MapOf([data_name |-> "Berlin"]) }

SeqsUpTo(S, n) == UNION {[1..k -> S] : k \in 0..n}

VtTiles ==
    { << [name |-> "test_layer", features |-> fa], [name |-> "other_layer", features |-> fb] >> :
        fa \in SeqsUpTo(FeatureKinds, MaxFeatures),
        fb \in { <<MapOf([tile_id |-> "i1", tile_name |-> "Madrid"])>>,
                 <<MapOf([tile_name |-> "Madrid"])>> } }

\* the tile the mock reader answers every coord with
MockTile ==
    << [name |-> "test_layer",
        features |-> << MapOf([tile_id |-> "i1", tile_name |-> "Baerlin"]),
                        MapOf([tile_id |-> "i4", tile_name |-> "Madrid"]) >>] >>

CsvFiles == SeqsUpTo(RowKinds, MaxRows)

ArgsSet ==
    [id_field_tiles : {"tile_id"}, id_field_values : {"data_id"},
     layer_name : {None, Some("test_layer")},
     replace_properties : BOOLEAN, remove_empty_properties : BOOLEAN, add_id : BOOLEAN]

\* VectorTile::to_blob and VectorTile::from_blob
to_blob(tile) == RawBlob(tile)

from_blob(blob) == IF blob.enc = <<>> THEN Ok(blob.payload) ELSE Err

(***************************************************************************)
(* Operation::new: the properties map of the CSV rows.                     *)
(***************************************************************************)
\* the rows collected with the first row of an id kept
RECURSIVE CollectRows_FirstWins(_, _, _, _)
CollectRows_FirstWins(rows, i, a, map) ==
    IF i > Len(rows) THEN Ok(map)
    ELSE LET properties == rows[i]
         IN  IF a.id_field_values \notin DOMAIN properties THEN Err
             ELSE LET key == to_string(properties[a.id_field_values])
                      row == IF ~a.add_id THEN PropRemove(properties, a.id_field_values)
                             ELSE properties
                  IN  CollectRows_FirstWins(rows, i + 1, a,
                          [k \in (DOMAIN map) \cup {key} |->
                              IF k \in DOMAIN map THEN map[k] ELSE row])

RECURSIVE CollectRows(_, _, _, _)
CollectRows(rows, i, a, map) ==
    IF i > Len(rows) THEN Ok(map)
    ELSE LET properties == rows[i]
         IN  IF a.id_field_values \notin DOMAIN properties THEN Err
             ELSE LET key == to_string(properties[a.id_field_values])
                      row == IF ~a.add_id THEN PropRemove(properties, a.id_field_values)
                             ELSE properties
                  IN  CollectRows(rows, i + 1, a,
                          [k \in (DOMAIN map) \cup {key} |-> IF k = key THEN row ELSE map[k]])

\* Operation::new: Err, or the runner's properties_map and the parameters
VtOperationNew(a, rows, source_parameters) ==
    LET m == CollectRows(rows, 1, a, <<>>)
    IN  IF ~m.ok THEN Err
        ELSE IF source_parameters.tile_format # "PBF" THEN Err
        ELSE Ok([properties_map |-> m.val, parameters |-> source_parameters])

(***************************************************************************)
(* Runner::run                                                             *)
(***************************************************************************)
\* the closure of map_properties with a feature's properties kept when its
\* id is not in the rows source
UpdateProperties_KeepUnmatched(properties) ==
    IF IsSome(properties)
    THEN LET prop == Unwrap(properties)
         IN  IF args.id_field_tiles \in DOMAIN prop
             THEN LET id == to_string(prop[args.id_field_tiles])
                  IN  IF id \in DOMAIN properties_map
                      THEN IF args.replace_properties
                           THEN Some(properties_map[id])
                           ELSE Some(PropUpdate(prop, properties_map[id]))
                      ELSE Some(prop)
             ELSE None
    ELSE None

\* the closure handed to layer.map_properties
UpdateProperties(properties) ==
    IF IsSome(properties)
    THEN LET prop == Unwrap(properties)
         IN  IF args.id_field_tiles \in DOMAIN prop
             THEN LET id == to_string(prop[args.id_field_tiles])
                  IN  IF id \in DOMAIN properties_map
                      THEN IF args.replace_properties
                           THEN Some(properties_map[id])
                           ELSE Some(PropUpdate(prop, properties_map[id]))
                      ELSE None
             ELSE None
    ELSE None

\* VectorTileLayer::map_properties
map_properties(features) ==
    [i \in 1..Len(features) |-> EncodeTagIds(UpdateProperties(DecodeTagIds(features[i])))]

HasTagIds(feature) == DOMAIN feature # {}

\* VectorTileLayer::retain_features(|feature| !feature.tag_ids.is_empty())
retain_features(features) == SelectSeq(features, HasTagIds)

\* the body of the loop without the test of layer_name
RunLayer_EveryLayer(layer) ==
    LET mapped == map_properties(layer.features)
    IN  [layer EXCEPT !.features =
            IF args.remove_empty_properties THEN retain_features(mapped) ELSE mapped]

\* the body of the loop over tile.layers
RunLayer(layer) ==
    IF IsSome(args.layer_name) /\ layer.name # Unwrap(args.layer_name) THEN layer
    ELSE LET mapped == map_properties(layer.features)
         IN  [layer EXCEPT !.features =
                 IF args.remove_empty_properties THEN retain_features(mapped) ELSE mapped]

\* Runner::run
run(blob) ==
    LET d == decompress(blob, vt_parameters.tile_compression)
    IN  IF ~d.ok THEN Err
        ELSE LET t == from_blob(d.val)
             IN  IF ~t.ok THEN Err
                 ELSE Ok(Some(to_blob([l \in 1..Len(t.val) |-> RunLayer(t.val[l])])))

(***************************************************************************)
(* The operation, its source and the calls.                                *)
(***************************************************************************)
SourceParameters == [tile_format : {"PBF"}, tile_compression : TileCompression]

\* a tile as the source holds it, in the source's declared compression
SourceTile(tile) == compress(to_blob(tile), vt_parameters.tile_compression)

InitVt ==
    /\ vt_pc = "new"
    /\ args \in ArgsSet
    /\ properties_map = <<>>
    /\ vt_parameters \in SourceParameters
    /\ vt_src = <<>>
    /\ vt_out = Err
    /\ vt_out2 = Err
    /\ vt_stream = <<>>
    /\ vt_rows = <<>>
    /\ IdleOverlay
    /\ IdleConv
    /\ IdleHttp
    /\ IdleOverlayNew
    /\ IdleVdl
    /\ IdlePyramide
    /\ IdlePipelineReader
    /\ IdleDirConverter
    /\ IdleStaticFolder

\* Operation::new on the rows read_csv_file returns
VtNew ==
    /\ vt_pc = "new"
    /\ \E rows \in CsvFiles :
          LET r == VtOperationNew(args, rows, vt_parameters)
          IN  /\ vt_rows' = rows
              /\ IF r.ok
                 THEN /\ properties_map' = r.val.properties_map
                      /\ vt_pc' = "built"
                 ELSE /\ properties_map' = <<>>
                      /\ vt_pc' = "build_failed"
    /\ UNCHANGED <<args, vt_parameters, vt_src, vt_out, vt_out2, vt_stream>>
    /\ UNCHANGED vtOthers

\* the answers of source.get_tile_data
VtSourceAnswers ==
    {Err, Ok(None), Ok(Some(JunkBlob(<<>>)))} \cup {Ok(Some(SourceTile(t))) : t \in VtTiles}

\* Operation::get_tile_data
VtGetTileData ==
    /\ vt_pc = "built"
    /\ \E answer \in VtSourceAnswers :
          /\ vt_src' = answer
          /\ vt_out' = IF ~answer.ok THEN Err
                       ELSE IF IsSome(answer.val) THEN run(Unwrap(answer.val))
                       ELSE Ok(None)
    /\ vt_pc' = "tile_done"
    /\ UNCHANGED <<vt_rows, args, properties_map, vt_parameters, vt_out2, vt_stream>>
    /\ UNCHANGED vtOthers

\* the same transform (same rows, same arguments) run on the blob it returned
VtRunAgain ==
    /\ vt_pc = "tile_done"
    /\ vt_out.ok
    /\ IsSome(vt_out.val)
    /\ vt_out2' = run(Unwrap(vt_out.val))
    /\ vt_pc' = "again_done"
    /\ UNCHANGED <<vt_rows, args, properties_map, vt_parameters, vt_src, vt_out, vt_stream>>
    /\ UNCHANGED vtOthers

\* Operation::get_bbox_tile_stream: the source's stream is opened
VtStreamBegin ==
    /\ vt_pc = "built"
    /\ vt_pc' = "stream"
    /\ vt_src' = <<>>
    /\ vt_stream' = <<>>
    /\ UNCHANGED <<vt_rows, args, properties_map, vt_parameters, vt_out, vt_out2>>
    /\ UNCHANGED vtOthers

\* one tile of the source's stream through filter_map_blob_parallel(runner.run(blob).unwrap())
VtStreamTile ==
    /\ vt_pc = "stream"
    /\ Len(vt_src) < MaxStreamTiles
    /\ \E blob \in {JunkBlob(<<>>), SourceTile(MockTile)} :
          LET r == run(blob)
          IN  /\ vt_src' = Append(vt_src, blob)
              /\ IF ~r.ok
                 THEN /\ vt_pc' = "panicked"
                      /\ UNCHANGED vt_stream
                 ELSE /\ vt_pc' = "stream"
                      /\ vt_stream' = IF IsSome(r.val) THEN Append(vt_stream, Unwrap(r.val))
                                      ELSE vt_stream
    /\ UNCHANGED <<vt_rows, args, properties_map, vt_parameters, vt_out, vt_out2>>
    /\ UNCHANGED vtOthers

\* the source's stream ends
VtStreamEnd ==
    /\ vt_pc = "stream"
    /\ vt_pc' = "stream_done"
    /\ UNCHANGED <<vt_rows, args, properties_map, vt_parameters, vt_src, vt_out, vt_out2, vt_stream>>
    /\ UNCHANGED vtOthers

NextVt ==
    \/ VtNew
    \/ VtGetTileData
    \/ VtRunAgain
    \/ VtStreamBegin
    \/ VtStreamTile
    \/ VtStreamEnd

SpecVt == InitVt /\ [][NextVt]_vars

(***************************************************************************)
(* Properties of the vector-tile property update.                          *)
(***************************************************************************)
\* the compression stack of a blob that is compressed with compression c
EncOf(c) == IF c = "Uncompressed" THEN <<>> ELSE <<c>>

VtReturnedBlob == vt_pc \in {"tile_done", "again_done"} /\ vt_out.ok /\ IsSome(vt_out.val)

\* C4 (property-update stream): a source tile that cannot be decompressed or
\* decoded is left out, the stream does not panic, and every other tile of
\* the source's stream is delivered.
C4_UpdateStreamSurvivesTileError ==
    /\ vt_pc # "panicked"
    /\ vt_pc = "stream_done" =>
          Len(vt_stream) = Cardinality({i \in 1..Len(vt_src) : WellFormed(vt_src[i])})

\* C5: every blob the operation returns, from get_tile_data or in its stream,
\* is compressed with the tile_compression of the operation's parameters.
C5_OutputCompressedAsDeclared ==
    /\ VtReturnedBlob => Unwrap(vt_out.val).enc = EncOf(vt_parameters.tile_compression)
    /\ \A i \in 1..Len(vt_stream) : vt_stream[i].enc = EncOf(vt_parameters.tile_compression)

\* C6: the transform run again, with the same rows and arguments, on the blob
\* it returned gives that same blob.
C6_TransformIdempotent == vt_pc = "again_done" => vt_out2 = vt_out

\* the properties the transform is to give a feature
RowOf(feature) == properties_map[to_string(feature[args.id_field_tiles])]

Unmatched(feature) ==
    \/ DOMAIN feature = {}
    \/ args.id_field_tiles \notin DOMAIN feature
    \/ to_string(feature[args.id_field_tiles]) \notin DOMAIN properties_map

IsUpdateOf(new, old, row) ==
    /\ DOMAIN new = (DOMAIN old) \cup (DOMAIN row)
    /\ \A k \in DOMAIN row : new[k] = row[k]
    /\ \A k \in (DOMAIN old) \ (DOMAIN row) : new[k] = old[k]

FeatureAsClaimed(new, old) ==
    IF Unmatched(old) THEN DecodeTagIds(new) = None
    ELSE IF args.replace_properties THEN new = RowOf(old)
    ELSE IsUpdateOf(new, old, RowOf(old))

LayerProcessed(layer) == ~IsSome(args.layer_name) \/ layer.name = Unwrap(args.layer_name)

VtTransformed ==
    /\ vt_pc = "tile_done"
    /\ vt_src.ok
    /\ IsSome(vt_src.val)
    /\ WellFormed(Unwrap(vt_src.val))

InTile == decompress(Unwrap(vt_src.val), vt_parameters.tile_compression).val.payload

OutTile == Unwrap(vt_out.val).payload

\* C7: each feature of a processed layer gets no properties if it had none,
\* lacks the id key or its stringified id is not in the properties map;
\* otherwise the stored row if replace_properties is set, and else its old
\* properties updated with the stored row.  (With remove_empty_properties
\* the features left without properties are then removed.)
C7_FeatureProperties ==
    VtTransformed =>
        /\ vt_out.ok
        /\ IsSome(vt_out.val)
        /\ Len(OutTile) = Len(InTile)
        /\ \A l \in 1..Len(InTile) :
              LayerProcessed(InTile[l]) =>
                 LET old == InTile[l].features
                     new == OutTile[l].features
                 IN  IF args.remove_empty_properties
                     THEN LET kept == SelectSeq([i \in 1..Len(old) |-> i],
                                                LAMBDA i : ~Unmatched(old[i])
                                                           /\ (args.replace_properties
                                                                  => DOMAIN RowOf(old[i]) # {}))
                          IN  /\ Len(new) = Len(kept)
                              /\ \A j \in 1..Len(kept) : FeatureAsClaimed(new[j], old[kept[j]])
                     ELSE /\ Len(new) = Len(old)
                          /\ \A i \in 1..Len(old) : FeatureAsClaimed(new[i], old[i])

\* a layer with an unmatched feature and a matched one, updated and not
\* replaced: the matched feature keeps tile_id, gets data_name and has its
\* tile_name overwritten by the row's
C7_Witness ==
    /\ VtTransformed
    /\ ~args.replace_properties
    /\ ~args.remove_empty_properties
    /\ Len(InTile[1].features) = 2
    /\ Unmatched(InTile[1].features[1])
    /\ DOMAIN InTile[1].features[1] # {}
    /\ InTile[1].features[2] = MapOf([tile_id |-> "i1", tile_name |-> "Madrid"])
    /\ OutTile[1].features[1] = NoProperties
    /\ OutTile[1].features[2] =
          MapOf([tile_id |-> "i1", tile_name |-> "Berlin", data_name |-> "Berlin"])

(***************************************************************************)
(* server::source::TileContainer: the HTTP tile source.  A path segment is *)
(* its sequence of characters.                                             *)
(***************************************************************************)
MaxPathLen == 3

Digits == <<"0", "1", "2", "3", "4", "5", "6", "7", "8", "9">>

IsDigit(c) == \E d \in 1..Len(Digits) : Digits[d] = c

DigitValue(c) == (CHOOSE d \in 1..Len(Digits) : Digits[d] = c) - 1

RECURSIVE DecimalValue(_)
DecimalValue(s) ==
    IF Len(s) = 0 THEN 0
    ELSE 10 * DecimalValue(SubSeq(s, 1, Len(s) - 1)) + DigitValue(s[Len(s)])

\* str::parse::<u64>: an optional "+", then one or more decimal digits
\* (the segments of the model stay far below 2^64)
parse_u64(s) ==
    LET body == IF Len(s) > 0 /\ s[1] = "+" THEN Tail(s) ELSE s
    IN  IF Len(body) = 0 \/ \E i \in 1..Len(body) : ~IsDigit(body[i])
        THEN Err
        ELSE Ok(DecimalValue(body))

MetaJson == <<"m", "e", "t", "a", ".", "j", "s", "o", "n">>

Segments == {<<"0">>, <<"1">>, <<"1", ".", "p", "b", "f">>, <<"x">>, MetaJson}

Paths == UNION {[1..n -> Segments] : n \in 0..MaxPathLen}

AcceptSets == SUBSET TileCompression

TileCoord3_new(z, y, x) == [z |-> z, y |-> y, x |-> x]

\* the coords the reader holds a tile for
ReaderCoords == {TileCoord3_new(1, 0, 1), TileCoord3_new(1, 1, 1)}

MetaBlobs == {RawBlob(<<>>), RawBlob(<<"meta">>)}

Readers ==
    [tile_format : {"PBF", "PNG", "JPG", "WEBP"},
     tile_precompression : TileCompression,
     meta : MetaBlobs,
     coords : {ReaderCoords}]

\* reader.get_tile_data: the tile as the reader stores it
ReaderGetTileData(coord) ==
    IF coord \in reader.coords
    THEN Some(compress(RawBlob(coord), reader.tile_precompression))
    ELSE None

BlobLen(blob) == Len(blob.payload)

\* the answers of get_data
ok_not_found ==
    [kind |-> "response", status |-> 404, content_type |-> None,
     content_encoding |-> None, body |-> None]

ok_data(blob, encoding, mime) ==
    [kind |-> "response", status |-> 200, content_type |-> Some(mime),
     content_encoding |-> IF encoding = "Uncompressed" THEN None ELSE Some(encoding),
     body |-> Some(blob)]

Panicked(call) ==
    [kind |-> "panic", status |-> 0, content_type |-> Some(call),
     content_encoding |-> None, body |-> None]

TileMime(tile_format) ==
    CASE tile_format = "PBF" -> "application/x-protobuf"
      [] tile_format = "PNG" -> "image/png"
      [] tile_format = "JPG" -> "image/jpeg"
      [] tile_format = "WEBP" -> "image/webp"

AcceptContains_Never(acc, c) == FALSE

AcceptContains(acc, c) == c \in acc

BestEncoding_GzipFirst(acc) ==
    IF AcceptContains(acc, "Gzip") THEN "Gzip"
    ELSE IF AcceptContains(acc, "Brotli") THEN "Brotli"
    ELSE "Uncompressed"

\* the encoding the meta branch answers with
BestEncoding(acc) ==
    IF AcceptContains(acc, "Brotli") THEN "Brotli"
    ELSE IF AcceptContains(acc, "Gzip") THEN "Gzip"
    ELSE "Uncompressed"

GetTile(p, acc) ==
    LET z == parse_u64(p[1])
        y == parse_u64(p[2])
        x == parse_u64(p[3])
    IN  IF ~z.ok \/ ~y.ok \/ ~x.ok THEN Panicked("Result::unwrap")
        ELSE LET tile == ReaderGetTileData(TileCoord3_new(z.val, y.val, x.val))
             IN  IF ~IsSome(tile) THEN ok_not_found
                 ELSE IF AcceptContains(acc, precompression)
                 THEN ok_data(Unwrap(tile), precompression, tile_mime)
                 ELSE LET d == decompress(Unwrap(tile), precompression)
                      IN  IF ~d.ok THEN Panicked("decompress")
                          ELSE ok_data(d.val, "Uncompressed", tile_mime)

GetMeta(acc) ==
    LET meta == reader.meta
    IN  IF BlobLen(meta) = 0 THEN ok_not_found
        ELSE ok_data(compress(meta, BestEncoding(acc)), BestEncoding(acc),
                     "application/json")

get_data(p, acc) ==
    IF Len(p) = 3 THEN GetTile(p, acc)
    ELSE IF Len(p) = 0 THEN Panicked("index out of bounds")
    ELSE IF p[1] = MetaJson THEN GetMeta(acc)
    ELSE ok_not_found

\* TileContainer::from(reader)
InitHttp ==
    /\ reader \in Readers
    /\ precompression = reader.tile_precompression
    /\ tile_mime = TileMime(reader.tile_format)
    /\ hp_pc = "waiting"
    /\ path = <<>>
    /\ accept = {}
    /\ response = <<>>
    /\ IdleOverlay
    /\ IdleConv
    /\ IdleVt
    /\ IdleOverlayNew
    /\ IdleVdl
    /\ IdlePyramide
    /\ IdlePipelineReader
    /\ IdleDirConverter
    /\ IdleStaticFolder

\* the server hands a request to the source
HttpRequest ==
    /\ hp_pc = "waiting"
    /\ path' \in Paths
    /\ accept' \in AcceptSets
    /\ hp_pc' = "called"
    /\ UNCHANGED <<reader, tile_mime, precompression, response>>
    /\ UNCHANGED hpOthers

\* TileContainer::get_data
HttpGetData ==
    /\ hp_pc = "called"
    /\ response' = get_data(path, accept)
    /\ hp_pc' = "answered"
    /\ UNCHANGED <<reader, tile_mime, precompression, path, accept>>
    /\ UNCHANGED hpOthers

NextHttp ==
    \/ HttpRequest
    \/ HttpGetData

SpecHttp == InitHttp /\ [][NextHttp]_vars

(***************************************************************************)
(* Properties of TileContainer::get_data.                                  *)
(***************************************************************************)
Answered == hp_pc = "answered"

IsNumber(seg) == parse_u64(seg).ok

IsTilePath(p) == Len(p) = 3 /\ \A i \in 1..3 : IsNumber(p[i])

PathCoord(p) ==
    [z |-> parse_u64(p[1]).val, y |-> parse_u64(p[2]).val, x |-> parse_u64(p[3]).val]

\* the MIME table
FormatMime ==
    [PBF |-> "application/x-protobuf", PNG |-> "image/png",
     JPG |-> "image/jpeg", WEBP |-> "image/webp"]

\* the Content-Encoding header of a compression: absent for Uncompressed
EncodingHeader(c) == IF c = "Uncompressed" THEN None ELSE Some(c)

StoredTile(coord) == compress(RawBlob(coord), reader.tile_precompression)

\* C11: a tile path [z, y, x] is answered 404 if the reader holds no tile
\* for the coord; else 200 with the format's MIME type, and with the stored
\* bytes under the stored compression's Content-Encoding if the client
\* accepts it, else with the decompressed bytes and no Content-Encoding.
C11_TileRoute ==
    (Answered /\ IsTilePath(path)) =>
        /\ response.kind = "response"
        /\ IF PathCoord(path) \notin reader.coords
           THEN response.status = 404
           ELSE /\ response.status = 200
                /\ response.content_type = Some(FormatMime[reader.tile_format])
                /\ IF reader.tile_precompression \in accept
                   THEN /\ response.body = Some(StoredTile(PathCoord(path)))
                        /\ response.content_encoding =
                              EncodingHeader(reader.tile_precompression)
                   ELSE /\ response.body = Some(RawBlob(PathCoord(path)))
                        /\ response.content_encoding = None

\* a gzip-stored tile went out decompressed to a client that accepts brotli only
C11_Witness ==
    /\ Answered
    /\ IsTilePath(path)
    /\ PathCoord(path) \in reader.coords
    /\ reader.tile_precompression = "Gzip"
    /\ accept = {"Brotli"}
    /\ response.status = 200
    /\ response.content_encoding = None
    /\ Unwrap(response.body).enc = <<>>

\* the best accepted encoding: brotli before gzip before none
BestAccepted(acc) ==
    CHOOSE c \in TileCompression :
        /\ c \in acc \/ c = "Uncompressed"
        /\ c = "Brotli" \/ "Brotli" \notin acc
        /\ c # "Uncompressed" \/ "Gzip" \notin acc

\* C12: the path ["meta.json"] is answered 404 if the meta is empty; else
\* 200 with application/json and the meta compressed with the best accepted
\* encoding, brotli before gzip before none.
C12_MetaRoute ==
    (Answered /\ path = <<MetaJson>>) =>
        /\ response.kind = "response"
        /\ IF BlobLen(reader.meta) = 0
           THEN response.status = 404
           ELSE /\ response.status = 200
                /\ response.content_type = Some("application/json")
                /\ response.content_encoding = EncodingHeader(BestAccepted(accept))
                /\ response.body = Some(compress(reader.meta, BestAccepted(accept)))

\* the meta went out brotli-compressed to a client that accepts gzip and brotli
C12_Witness ==
    /\ Answered
    /\ path = <<MetaJson>>
    /\ BlobLen(reader.meta) > 0
    /\ accept = {"Gzip", "Brotli"}
    /\ response.content_encoding = Some("Brotli")
    /\ Unwrap(response.body).enc = <<"Brotli">>

\* C13: every path that is neither a tile path of three numbers nor exactly
\* ["meta.json"] is answered 404: the handler does not panic and serves
\* neither a tile nor the meta.
C13_OtherPaths404 ==
    (Answered /\ ~IsTilePath(path) /\ path # <<MetaJson>>) =>
        response = ok_not_found

HasExtension(seg) == \E i \in 1..Len(seg) : seg[i] = "."

\* the segment up to its first "."
StripExtension(seg) ==
    IF HasExtension(seg)
    THEN SubSeq(seg, 1, (CHOOSE i \in 1..Len(seg) :
                            /\ seg[i] = "."
                            /\ \A j \in 1..(i - 1) : seg[j] # ".") - 1)
    ELSE seg

\* C14: a request [z, y, "x.ext"] is answered as the request [z, y, "x"] is.
C14_ExtensionStripped ==
    (/\ Answered
     /\ Len(path) = 3
     /\ IsNumber(path[1])
     /\ IsNumber(path[2])
     /\ HasExtension(path[3])
     /\ IsNumber(StripExtension(path[3]))) =>
        response = get_data(<<path[1], path[2], StripExtension(path[3])>>, accept)

(***************************************************************************)
(* overlay_tiles::Operation::new, step by step, over children that differ  *)
(* in format, compression and pyramid.  A pyramid is one bbox per zoom     *)
(* level; a bbox is empty or an inclusive rectangle of tiles.              *)
(***************************************************************************)
MaxSources == 3

MaxLevel == 1

Levels == 0..MaxLevel

EmptyBBox == [empty |-> TRUE, x_min |-> 0, y_min |-> 0, x_max |-> 0, y_max |-> 0]

BBox(x0, y0, x1, y1) ==
    [empty |-> FALSE, x_min |-> x0, y_min |-> y0, x_max |-> x1, y_max |-> y1]

\* TileBBox::include_bbox: the smallest rectangle that holds both
include_bbox(self, bbox) ==
    IF bbox.empty THEN self
    ELSE IF self.empty THEN bbox
    ELSE BBox(IF bbox.x_min < self.x_min THEN bbox.x_min ELSE self.x_min,
              IF bbox.y_min < self.y_min THEN bbox.y_min ELSE self.y_min,
              IF bbox.x_max > self.x_max THEN bbox.x_max ELSE self.x_max,
              IF bbox.y_max > self.y_max THEN bbox.y_max ELSE self.y_max)

include_bbox_pyramid_Skip(self, other) == self

\* TileBBoxPyramid::include_bbox_pyramid: level by level
include_bbox_pyramid(self, other) ==
    [z \in Levels |-> include_bbox(self[z], other[z])]

\* the pyramids of the children: no tile, the tile (0, 0) of every level,
\* and the tile (1, 1) of every level but 0
Pyramids ==
    {[z \in Levels |-> EmptyBBox],
     [z \in Levels |-> BBox(0, 0, 0, 0)],
     [z \in Levels |-> IF z = 0 THEN EmptyBBox ELSE BBox(1, 1, 1, 1)]}

SourceParametersSet ==
    [tile_format : {"PBF", "PNG"},
     tile_compression : TileCompression,
     bbox_pyramid : Pyramids]

SourceLists == UNION {[1..n -> SourceParametersSet] : n \in 0..MaxSources}

SameFormat_Always(a, b) == TRUE

\* the test of the ensure! on the children's formats
SameFormat(a, b) == a = b

MergeCompression_Keep(current, child) == current

\* the loop's update of tile_compression
MergeCompression(current, child) ==
    IF child # current THEN "Uncompressed" ELSE current

\* Operation::new is called on a node with its children
InitOverlayNew ==
    /\ on_sources \in SourceLists
    /\ on_built \in BOOLEAN
    /\ on_pc = "called"
    /\ on_i = 0
    /\ on_format = ""
    /\ on_compression = ""
    /\ on_pyramid = <<>>
    /\ on_result = Err
    /\ IdleOverlay
    /\ IdleConv
    /\ IdleVt
    /\ IdleHttp
    /\ IdleVdl
    /\ IdlePyramide
    /\ IdlePipelineReader
    /\ IdleDirConverter
    /\ IdleStaticFolder

\* the children are built and the first one's parameters are read
OverlayNewBegin ==
    /\ on_pc = "called"
    /\ IF ~on_built \/ Len(on_sources) = 0
       THEN /\ on_pc' = "failed"
            /\ UNCHANGED <<on_i, on_format, on_compression, on_pyramid>>
       ELSE /\ on_pyramid' = on_sources[1].bbox_pyramid
            /\ on_format' = on_sources[1].tile_format
            /\ on_compression' = on_sources[1].tile_compression
            /\ on_i' = 1
            /\ on_pc' = "loop"
    /\ UNCHANGED <<on_built, on_sources, on_result>>
    /\ UNCHANGED onOthers

\* one turn of the loop over the sources
OverlayNewSource ==
    /\ on_pc = "loop"
    /\ on_i <= Len(on_sources)
    /\ on_pyramid' = include_bbox_pyramid(on_pyramid, on_sources[on_i].bbox_pyramid)
    /\ IF ~SameFormat(on_sources[on_i].tile_format, on_format)
       THEN /\ on_pc' = "failed"
            /\ UNCHANGED <<on_i, on_compression>>
       ELSE /\ on_compression' =
                  MergeCompression(on_compression, on_sources[on_i].tile_compression)
            /\ on_i' = on_i + 1
            /\ on_pc' = "loop"
    /\ UNCHANGED <<on_built, on_sources, on_format, on_result>>
    /\ UNCHANGED onOthers

\* the Operation is returned with its parameters
OverlayNewEnd ==
    /\ on_pc = "loop"
    /\ on_i > Len(on_sources)
    /\ on_result' = Ok([tile_format |-> on_format,
                        tile_compression |-> on_compression,
                        bbox_pyramid |-> on_pyramid])
    /\ on_pc' = "built"
    /\ UNCHANGED <<on_built, on_sources, on_i, on_format, on_compression, on_pyramid>>
    /\ UNCHANGED onOthers

NextOverlayNew ==
    \/ OverlayNewBegin
    \/ OverlayNewSource
    \/ OverlayNewEnd

SpecOverlayNew == InitOverlayNew /\ [][NextOverlayNew]_vars

(***************************************************************************)
(* Properties of overlay_tiles::Operation::new.                            *)
(***************************************************************************)
OverlayBuilt == on_pc = "built"

OverlayReturned == on_pc \in {"built", "failed"}

ChildrenAgree(field) ==
    \A i, j \in 1..Len(on_sources) : on_sources[i][field] = on_sources[j][field]

\* C15: the overlay declares the children's common compression if they all
\* declare the same one, and Uncompressed otherwise.
C15_OverlayCompression ==
    OverlayBuilt =>
        on_result.val.tile_compression =
            IF ChildrenAgree("tile_compression")
            THEN on_sources[1].tile_compression
            ELSE "Uncompressed"

\* an overlay of (Gzip, Gzip, Brotli) was built and declares Uncompressed
C15_Witness ==
    /\ OverlayBuilt
    /\ Len(on_sources) = 3
    /\ on_sources[1].tile_compression = "Gzip"
    /\ on_sources[2].tile_compression = "Gzip"
    /\ on_sources[3].tile_compression = "Brotli"
    /\ on_result.val.tile_compression = "Uncompressed"

\* C16: with children of different formats new returns an error and no
\* operation; a built overlay declares the format of every child.
C16_OverlayFormat ==
    OverlayReturned =>
        /\ ~ChildrenAgree("tile_format") => (on_pc = "failed" /\ ~on_result.ok)
        /\ OverlayBuilt =>
              /\ on_result.ok
              /\ \A i \in 1..Len(on_sources) :
                    on_sources[i].tile_format = on_result.val.tile_format

\* new has failed on children that differ in nothing but the format
C16_Witness ==
    /\ on_pc = "failed"
    /\ on_built
    /\ Len(on_sources) = 2
    /\ on_sources[1].tile_format = "PBF"
    /\ on_sources[2].tile_format = "PNG"
    /\ on_sources[1].tile_compression = on_sources[2].tile_compression
    /\ on_sources[1].bbox_pyramid = on_sources[2].bbox_pyramid
    /\ ~on_result.ok

Covers(bbox, x, y) ==
    /\ ~bbox.empty
    /\ bbox.x_min <= x /\ x <= bbox.x_max
    /\ bbox.y_min <= y /\ y <= bbox.y_max

LevelTiles(z) == {<<x, y>> : x \in 0..z, y \in 0..z}

\* C17: at every level the overlay's pyramid covers every tile that the
\* pyramid of one of its children covers.
C17_OverlayPyramid ==
    OverlayBuilt =>
        \A i \in 1..Len(on_sources) : \A z \in Levels : \A t \in LevelTiles(z) :
            Covers(on_sources[i].bbox_pyramid[z], t[1], t[2]) =>
                Covers(on_result.val.bbox_pyramid[z], t[1], t[2])

\* an overlay was built whose second child covers a tile the first does not
C17_Witness ==
    /\ OverlayBuilt
    /\ Len(on_sources) = 2
    /\ Covers(on_sources[2].bbox_pyramid[1], 1, 1)
    /\ ~Covers(on_sources[1].bbox_pyramid[1], 1, 1)
    /\ Covers(on_sources[1].bbox_pyramid[1], 0, 0)
    /\ Covers(on_result.val.bbox_pyramid[1], 1, 1)
    /\ Covers(on_result.val.bbox_pyramid[1], 0, 0)

(***************************************************************************)
(* utils::vdl::parser.  A text is its sequence of characters; a parser     *)
(* takes the input and returns, if it matches, the rest of the input and   *)
(* its value.                                                              *)
(***************************************************************************)
MaxProps == 3

AsciiLetters == {"a", "b", "c", "d", "e", "f", "g", "h", "i", "j", "k", "l", "m", "n", "o", "p", "q", "r", "s", "t", "u", "v", "w", "x", "y", "z"}

AsciiDigits == {Digits[d] : d \in 1..Len(Digits)}

AlphanumericChars == AsciiLetters \cup AsciiDigits

Whitespace == {" ", "\t", "\n", "\r"}

Matched(rest, val) == [ok |-> TRUE, rest |-> rest, val |-> val]

NoMatch == [ok |-> FALSE, rest |-> <<>>, val |-> <<>>]

\* the one value of a set of one value: Only({e : x \in {v}}) is e with x bound to v
Only(S) == CHOOSE r \in S : TRUE

Take(i, n) == SubSeq(i, 1, n)

Drop(i, n) == SubSeq(i, n + 1, Len(i))

\* the length of the longest prefix of i made of characters of S
PrefixLen(i, S) ==
    CHOOSE n \in 0..Len(i) :
        /\ \A j \in 1..n : i[j] \in S
        /\ n = Len(i) \/ i[n + 1] \notin S

multispace0(i) == Drop(i, PrefixLen(i, Whitespace))

multispace1(i) ==
    IF PrefixLen(i, Whitespace) = 0 THEN NoMatch
    ELSE Matched(multispace0(i), <<>>)

char(i, c) ==
    IF Len(i) > 0 /\ i[1] = c THEN Matched(Tail(i), c) ELSE NoMatch

parse_unquoted_value(i) ==
    LET n == PrefixLen(i, AlphanumericChars \cup {".", "-", "_"})
    IN  IF n = 0 THEN NoMatch ELSE Matched(Drop(i, n), Take(i, n))

is_identifier_char == AlphanumericChars \cup {"_", "-"}

is_initial_identifier_char == is_identifier_char \ AsciiDigits

parse_bare_identifier(i) ==
    LET n1 == PrefixLen(i, is_initial_identifier_char)
    IN  IF n1 = 0 THEN NoMatch
        ELSE LET n2 == PrefixLen(Drop(i, n1), is_identifier_char)
             IN  Matched(Drop(i, n1 + n2), Take(i, n1 + n2))

Unescape(c) ==
    CASE c = "\\" -> "\\"
      [] c = "\"" -> "\""
      [] c = "n" -> "\n"
      [] c = "t" -> "\t"

\* escaped_transform(none_of("\\\""), '\\', ..): index is the number of
\* characters consumed so far, res the transformed text
RECURSIVE escaped_transform(_, _, _)
escaped_transform(i, index, res) ==
    IF Len(i) = 0 THEN Matched(i, res)
    ELSE IF i[1] \notin {"\\", "\""}
    THEN escaped_transform(Tail(i), index + 1, Append(res, i[1]))
    ELSE IF i[1] = "\\"
    THEN IF Len(i) >= 2 /\ i[2] \in {"\\", "\"", "n", "t"}
         THEN escaped_transform(Drop(i, 2), index + 2, Append(res, Unescape(i[2])))
         ELSE NoMatch
    ELSE IF index = 0 THEN NoMatch ELSE Matched(i, res)

parse_string(i) == escaped_transform(i, 0, <<>>)

parse_quoted_string(i) ==
    IF ~char(i, "\"").ok THEN NoMatch
    ELSE Only({IF s.ok /\ char(s.rest, "\"").ok
               THEN Matched(Tail(s.rest), s.val)
               ELSE NoMatch : s \in {parse_string(Tail(i))}})

parse_identifier(i) ==
    Only({IF q.ok THEN q ELSE parse_bare_identifier(i) : q \in {parse_quoted_string(i)}})

\* the element of parse_array's list
ArrayItem(i) ==
    Only({IF q.ok THEN q ELSE parse_unquoted_value(i) : q \in {parse_quoted_string(i)}})

\* the separator of parse_array's list
ArraySeparator(i) == char(multispace0(i), ",")

\* separated_list0 of parse_array, after its first element
RECURSIVE ArrayListRest(_, _)
ArrayListRest(i, res) ==
    IF ~ArraySeparator(i).ok THEN Matched(i, res)
    ELSE Only({IF ~e.ok THEN Matched(i, res)
               ELSE ArrayListRest(e.rest, Append(res, e.val)) :
                    e \in {ArrayItem(multispace0(ArraySeparator(i).rest))}})

ArrayList(i) ==
    Only({IF first.ok THEN ArrayListRest(first.rest, <<first.val>>)
          ELSE Matched(i, <<>>) : first \in {ArrayItem(i)}})

parse_array(i) ==
    IF ~char(i, "[").ok THEN NoMatch
    ELSE Only({IF char(multispace0(list.rest), "]").ok
               THEN Matched(Tail(multispace0(list.rest)), list.val)
               ELSE NoMatch : list \in {ArrayList(multispace0(Tail(i)))}})

parse_value(i) ==
    Only({IF q.ok THEN Matched(q.rest, <<q.val>>)
          ELSE Only({IF u.ok THEN Matched(u.rest, <<u.val>>)
                     ELSE parse_array(i) : u \in {parse_unquoted_value(i)}}) :
               q \in {parse_quoted_string(i)}})

parse_prop(i) ==
    Only({IF ~key.ok \/ ~char(multispace0(key.rest), "=").ok THEN NoMatch
          ELSE Only({IF ~v.ok THEN NoMatch
                     ELSE Matched(v.rest, [key |-> key.val, values |-> v.val]) :
                          v \in {parse_value(multispace0(Tail(multispace0(key.rest))))}}) :
               key \in {parse_identifier(i)}})

\* separated_list0(multispace1, parse_prop), after its first element
RECURSIVE PropertyListRest(_, _)
PropertyListRest(i, res) ==
    IF ~multispace1(i).ok THEN Matched(i, res)
    ELSE Only({IF ~e.ok THEN Matched(i, res)
               ELSE PropertyListRest(e.rest, Append(res, e.val)) :
                    e \in {parse_prop(multispace0(i))}})

PropertyList(i) ==
    Only({IF first.ok THEN PropertyListRest(first.rest, <<first.val>>)
          ELSE Matched(i, <<>>) : first \in {parse_prop(i)}})

and_modify_Replace(list, values) == values

\* and_modify(|list| list.append(&mut values))
and_modify(list, values) == list \o values

\* properties.entry(key).and_modify(..).or_insert(values)
EntryInsert(properties, key, values) ==
    [k \in DOMAIN properties \cup {key} |->
        IF k # key THEN properties[k]
        ELSE IF key \in DOMAIN properties THEN and_modify(properties[key], values)
        ELSE values]

\* the loop over property_list, from its k-th element on
RECURSIVE CollectProperties(_, _, _)
CollectProperties(property_list, k, properties) ==
    IF k > Len(property_list) THEN properties
    ELSE CollectProperties(property_list, k + 1,
            EntryInsert(properties, property_list[k].key, property_list[k].values))

RECURSIVE parse_node(_)
RECURSIVE parse_pipeline(_)
RECURSIVE parse_children(_)
RECURSIVE ChildListRest(_, _)
RECURSIVE NodeListRest(_, _)

\* separated_list0(char(','), parse_pipeline), after its first element
ChildListRest(i, res) ==
    IF ~char(i, ",").ok THEN Matched(i, res)
    ELSE Only({IF ~e.ok THEN Matched(i, res)
               ELSE ChildListRest(e.rest, Append(res, e.val)) :
                    e \in {parse_pipeline(Tail(i))}})

ChildList(i) ==
    Only({IF first.ok THEN ChildListRest(first.rest, <<first.val>>)
          ELSE Matched(i, <<>>) : first \in {parse_pipeline(i)}})

parse_children(i) ==
    IF ~char(i, "[").ok THEN Matched(i, <<>>)
    ELSE Only({IF char(multispace0(list.rest), "]").ok
               THEN Matched(Tail(multispace0(list.rest)), list.val)
               ELSE Matched(i, <<>>) : list \in {ChildList(multispace0(Tail(i)))}})

\* parse_node, once the name and the property list are parsed
NodeChildren(name, property_list) ==
    Only({Matched(multispace0(children.rest),
                  [name |-> name,
                   properties |-> CollectProperties(property_list.val, 1, <<>>),
                   children |-> children.val]) :
               children \in {parse_children(multispace0(property_list.rest))}})

parse_node(i) ==
    Only({IF ~name.ok THEN NoMatch
          ELSE Only({NodeChildren(name.val, property_list) :
                          property_list \in {PropertyList(multispace0(name.rest))}}) :
               name \in {parse_identifier(multispace0(i))}})

\* separated_list0(char('|'), parse_node), after its first element
NodeListRest(i, res) ==
    IF ~char(i, "|").ok THEN Matched(i, res)
    ELSE Only({IF ~e.ok THEN Matched(i, res)
               ELSE NodeListRest(e.rest, Append(res, e.val)) :
                    e \in {parse_node(Tail(i))}})

NodeList(i) ==
    Only({IF first.ok THEN NodeListRest(first.rest, <<first.val>>)
          ELSE Matched(i, <<>>) : first \in {parse_node(i)}})

parse_pipeline(i) ==
    Only({Matched(multispace0(list.rest), list.val) : list \in {NodeList(multispace0(i))}})

\* str::trim
RECURSIVE trim(_)
trim(s) ==
    IF Len(s) = 0 THEN s
    ELSE IF s[1] \in Whitespace THEN trim(Tail(s))
    ELSE IF s[Len(s)] \in Whitespace THEN trim(SubSeq(s, 1, Len(s) - 1))
    ELSE s

LeftoverIsEmpty_Always(leftover) == TRUE

\* leftover.trim().is_empty()
LeftoverIsEmpty(leftover) == Len(trim(leftover)) = 0

(***************************************************************************)
(* The documents handed to parse_vdl: a node with its declared properties, *)
(* a children block and a tail, built from the texts of the parser's       *)
(* tests.                                                                  *)
(***************************************************************************)
\* the texts of the documents, by name
Text ==
    [node1 |-> <<"n", "o", "d", "e", "1">>,
     node2 |-> <<"n", "o", "d", "e", "2">>,
     child1 |-> <<"c", "h", "i", "l", "d", "1">>,
     child2 |-> <<"c", "h", "i", "l", "d", "2">>,
     key1 |-> <<"k", "e", "y", "1">>,
     key2 |-> <<"k", "e", "y", "2">>,
     key3 |-> <<"k", "e", "y", "3">>,
     value1 |-> <<"v", "a", "l", "u", "e", "1">>,
     value2 |-> <<"v", "a", "l", "u", "e", "2">>,
     value3 |-> <<"v", "a", "l", "u", "e", "3">>,
     a |-> <<"a">>,
     b |-> <<"b">>,
     array |-> <<"[", "a", ",", " ", "b", "]">>,
     quoted_value3 |-> <<"\"", "v", "a", "l", "u", "e", "3", "\"">>,
     no_children |-> <<>>,
     children_bar |-> <<" ", "[", " ", "c", "h", "i", "l", "d", "1", " ", "k", "e", "y", "2", "=", "v", "a", "l", "u", "e", "2", " ", "|", " ", "c", "h", "i", "l", "d", "2", " ", "k", "e", "y", "3", "=", "\"", "v", "a", "l", "u", "e", "3", "\"", " ", "]">>,
     children_comma |-> <<" ", "[", " ", "c", "h", "i", "l", "d", "1", " ", "k", "e", "y", "2", "=", "v", "a", "l", "u", "e", "2", ",", " ", "c", "h", "i", "l", "d", "2", " ", "k", "e", "y", "3", "=", "\"", "v", "a", "l", "u", "e", "3", "\"", " ", "]">>,
     children_one |-> <<" ", "[", " ", "c", "h", "i", "l", "d", "1", " ", "]">>,
     no_tail |-> <<>>,
     tail_bar_node2 |-> <<" ", "|", " ", "n", "o", "d", "e", "2">>,
     tail_node2 |-> <<" ", "n", "o", "d", "e", "2">>,
     tail_bar |-> <<" ", "|">>,
     tail_newline |-> <<"\n">>]

\* the declarations of a property: its key, the text of its value and the
\* values the text declares
PropertyDeclarations ==
    {[key |-> Text.key1, text |-> Text.value1, values |-> <<Text.value1>>],
     [key |-> Text.key1, text |-> Text.value2, values |-> <<Text.value2>>],
     [key |-> Text.key2, text |-> Text.quoted_value3, values |-> <<Text.value3>>],
     [key |-> Text.key1, text |-> Text.array, values |-> <<Text.a, Text.b>>]}

ChildrenTexts == {Text.no_children, Text.children_bar, Text.children_comma, Text.children_one}

TailTexts == {Text.no_tail, Text.tail_bar_node2, Text.tail_node2, Text.tail_bar, Text.tail_newline}

Documents ==
    [props : UNION {[1..n -> PropertyDeclarations] : n \in 0..MaxProps},
     children : ChildrenTexts,
     tail : TailTexts]

RECURSIVE PropertiesText(_, _)
PropertiesText(props, k) ==
    IF k > Len(props) THEN <<>>
    ELSE <<" ">> \o props[k].key \o <<"=">> \o props[k].text \o PropertiesText(props, k + 1)

DocumentText(doc) ==
    Text.node1 \o PropertiesText(doc.props, 1) \o doc.children \o doc.tail

\* parse_vdl is called on a document's text
InitVdl ==
    /\ vdl_doc \in Documents
    /\ vdl_input = DocumentText(vdl_doc)
    /\ vdl_pc = "called"
    /\ vdl_parsed = <<>>
    /\ vdl_result = Err
    /\ IdleOverlay
    /\ IdleConv
    /\ IdleVt
    /\ IdleHttp
    /\ IdleOverlayNew
    /\ IdlePyramide
    /\ IdlePipelineReader
    /\ IdleDirConverter
    /\ IdleStaticFolder

\* parse_vdl: match parse_pipeline(input)
VdlParsePipeline ==
    /\ vdl_pc = "called"
    /\ vdl_parsed' = parse_pipeline(vdl_input)
    /\ vdl_pc' = "parsed"
    /\ UNCHANGED <<vdl_doc, vdl_input, vdl_result>>
    /\ UNCHANGED vdlOthers

\* parse_vdl: the arms of the match
VdlReturn ==
    /\ vdl_pc = "parsed"
    /\ vdl_result' = IF vdl_parsed.ok /\ LeftoverIsEmpty(vdl_parsed.rest)
                     THEN Ok(vdl_parsed.val)
                     ELSE Err
    /\ vdl_pc' = "returned"
    /\ UNCHANGED <<vdl_doc, vdl_input, vdl_parsed>>
    /\ UNCHANGED vdlOthers

NextVdl ==
    \/ VdlParsePipeline
    \/ VdlReturn

SpecVdl == InitVdl /\ [][NextVdl]_vars

(***************************************************************************)
(* Properties of parse_vdl.                                                *)
(***************************************************************************)
VdlReturned == vdl_pc = "returned"

HasNonWhitespace(s) == \E k \in 1..Len(s) : s[k] \notin Whitespace

\* C18: parse_vdl returns an error whenever parse_pipeline leaves input
\* that is not whitespace, as for a second node that follows a children
\* block without a "|"; it returns a pipeline only if nothing else is left.
C18_TrailingInputIsError ==
    VdlReturned =>
        /\ HasNonWhitespace(vdl_parsed.rest) => ~vdl_result.ok
        /\ vdl_result.ok => (vdl_parsed.ok /\ ~HasNonWhitespace(vdl_parsed.rest))
        /\ vdl_doc.tail \in {Text.tail_node2, Text.tail_bar} => ~vdl_result.ok

\* the text of test_parse_vdl_with_error was rejected with "node2" left over
C18_Witness ==
    /\ VdlReturned
    /\ vdl_doc.props = <<[key |-> Text.key1, text |-> Text.value1, values |-> <<Text.value1>>]>>
    /\ vdl_doc.children = Text.children_bar
    /\ vdl_doc.tail = Text.tail_node2
    /\ vdl_parsed.ok
    /\ vdl_parsed.rest = Text.node2
    /\ ~vdl_result.ok

IsExampleOfNodes3 ==
    /\ vdl_doc.props = <<[key |-> Text.key1, text |-> Text.value1, values |-> <<Text.value1>>]>>
    /\ vdl_doc.children = Text.children_bar
    /\ vdl_doc.tail = Text.tail_bar_node2

\* C19: the text
\*   node1 key1=value1 [ child1 key2=value2 | child2 key3="value3" ] | node2
\* parses to a pipeline of two nodes, whose first node has one property and
\* two child pipelines of one node each, child1 and then child2.
C19_ChildrenBlockExample ==
    (VdlReturned /\ IsExampleOfNodes3) =>
        /\ vdl_result.ok
        /\ Len(vdl_result.val) = 2
        /\ vdl_result.val[1].name = Text.node1
        /\ vdl_result.val[2].name = Text.node2
        /\ DOMAIN vdl_result.val[1].properties = {Text.key1}
        /\ Len(vdl_result.val[1].children) = 2
        /\ \A c \in 1..Len(vdl_result.val[1].children) :
              Len(vdl_result.val[1].children[c]) = 1
        /\ vdl_result.val[1].children[1][1].name = Text.child1
        /\ vdl_result.val[1].children[2][1].name = Text.child2

\* the declared values of a key, in declaration order
RECURSIVE DeclaredValues(_, _, _)
DeclaredValues(props, key, k) ==
    IF k > Len(props) THEN <<>>
    ELSE (IF props[k].key = key THEN props[k].values ELSE <<>>)
            \o DeclaredValues(props, key, k + 1)

DeclaredKeys(props) == {props[k].key : k \in 1..Len(props)}

\* C20: the value list a node has for a key is the concatenation of the
\* values of all declarations of the key, in declaration order.
C20_RepeatedKeysConcatenate ==
    (vdl_pc \in {"parsed", "returned"} /\ vdl_parsed.ok /\ Len(vdl_parsed.val) >= 1) =>
        /\ DOMAIN vdl_parsed.val[1].properties = DeclaredKeys(vdl_doc.props)
        /\ \A key \in DeclaredKeys(vdl_doc.props) :
              vdl_parsed.val[1].properties[key] = DeclaredValues(vdl_doc.props, key, 1)

\* node1 key1=value2 key2="value3" key1=[a, b] was parsed
C20_Witness ==
    /\ VdlReturned
    /\ vdl_result.ok
    /\ Len(vdl_doc.props) = 3
    /\ vdl_doc.props[1].text = Text.value2
    /\ vdl_doc.props[2].key = Text.key2
    /\ vdl_doc.props[3].text = Text.array
    /\ vdl_result.val[1].properties[Text.key1] = <<Text.value2, Text.a, Text.b>>
    /\ vdl_result.val[1].properties[Text.key2] = <<Text.value3>>

(***************************************************************************)
(* Properties of the property update's build and of its layer filter.      *)
(***************************************************************************)
VtNewReturned == vt_pc # "new"

RowsWithId(id) ==
    {i \in 1..Len(vt_rows) : to_string(vt_rows[i][args.id_field_values]) = id}

LastRowWithId(id) == vt_rows[CHOOSE i \in RowsWithId(id) : \A j \in RowsWithId(id) : j <= i]

\* C24: if a row lacks the id_field_values column, Operation::new fails and
\* there is no operation; else every row's stringified id has an entry, which
\* is the last row with that id, without its id column exactly if add_id is
\* false.
C24_PropertiesMapFromRows ==
    VtNewReturned =>
        IF \E i \in 1..Len(vt_rows) : args.id_field_values \notin DOMAIN vt_rows[i]
        THEN vt_pc = "build_failed" /\ properties_map = <<>>
        ELSE /\ vt_pc # "build_failed"
             /\ DOMAIN properties_map =
                   {to_string(vt_rows[i][args.id_field_values]) : i \in 1..Len(vt_rows)}
             /\ \A id \in DOMAIN properties_map :
                   /\ args.add_id => properties_map[id] = LastRowWithId(id)
                   /\ ~args.add_id =>
                         /\ args.id_field_values \notin DOMAIN properties_map[id]
                         /\ \A k \in DOMAIN LastRowWithId(id) :
                               k # args.id_field_values =>
                                  /\ k \in DOMAIN properties_map[id]
                                  /\ properties_map[id][k] = LastRowWithId(id)[k]
                         /\ DOMAIN properties_map[id] \subseteq DOMAIN LastRowWithId(id)

\* two rows with the ids "1" (a string) and 1 (a number) were collected with
\* add_id unset: the one entry "1" is the second row without its id
C24_Witness ==
    /\ vt_pc = "built"
    /\ ~args.add_id
    /\ Len(vt_rows) = 2
    /\ vt_rows[1] = MapOf([data_id |-> "s1", data_name |-> "Berlin", tile_name |-> "Berlin"])
    /\ vt_rows[2] = MapOf([data_id |-> "i1", tile_id |-> "i2"])
    /\ DOMAIN properties_map = {"1"}
    /\ properties_map["1"] = MapOf([tile_id |-> "i2"])

\* C25: a layer that layer_name does not select comes out as it went in,
\* also with remove_empty_properties; every other layer (every layer, if
\* layer_name is unset) is processed: a feature that comes out of it with
\* properties is a matched feature, updated.
C25_OtherLayersUnchanged ==
    VtTransformed =>
        \A l \in 1..Len(InTile) :
            IF ~LayerProcessed(InTile[l])
            THEN OutTile[l] = InTile[l]
            ELSE \A j \in 1..Len(OutTile[l].features) :
                     OutTile[l].features[j] # NoProperties =>
                        \E i \in 1..Len(InTile[l].features) :
                            /\ ~Unmatched(InTile[l].features[i])
                            /\ FeatureAsClaimed(OutTile[l].features[j], InTile[l].features[i])

\* with layer_name = test_layer and remove_empty_properties, other_layer kept
\* its unmatched feature while test_layer lost its feature
C25_Witness ==
    /\ VtTransformed
    /\ args.layer_name = Some("test_layer")
    /\ args.remove_empty_properties
    /\ InTile[1].name = "test_layer"
    /\ Len(InTile[1].features) = 1
    /\ Len(OutTile[1].features) = 0
    /\ InTile[2].name = "other_layer"
    /\ InTile[2].features = <<MapOf([tile_name |-> "Madrid"])>>
    /\ OutTile[2] = InTile[2]

(***************************************************************************)
(* types::TileBBoxPyramide                                                 *)
(***************************************************************************)
\* the highest level of the pyramid (32 in the source)
MAX_ZOOM_LEVEL == 2

ZoomLevels == 0..MAX_ZOOM_LEVEL

\* TileBBox::new_full(level): all 2^level x 2^level tiles of the level
TileBBox_new_full(level) == BBox(0, 0, 2^level - 1, 2^level - 1)

\* TileBBox::intersect: the common rectangle, empty if a range is empty
TileBBox_intersect(self, bbox) ==
    IF self.empty \/ bbox.empty THEN EmptyBBox
    ELSE LET x0 == IF bbox.x_min > self.x_min THEN bbox.x_min ELSE self.x_min
             y0 == IF bbox.y_min > self.y_min THEN bbox.y_min ELSE self.y_min
             x1 == IF bbox.x_max < self.x_max THEN bbox.x_max ELSE self.x_max
             y1 == IF bbox.y_max < self.y_max THEN bbox.y_max ELSE self.y_max
         IN  IF x0 > x1 \/ y0 > y1 THEN EmptyBBox ELSE BBox(x0, y0, x1, y1)

new_full == [z \in ZoomLevels |-> TileBBox_new_full(z)]

new_empty == [z \in ZoomLevels |-> EmptyBBox]

\* get_zoom_range with every level taken for non-empty
get_zoom_range_Unfiltered(lb) ==
    LET levels == [i \in 1..(MAX_ZOOM_LEVEL + 1) |-> i - 1]
    IN  IF Len(levels) = 0 THEN <<0, 0>> ELSE <<levels[1], levels[Len(levels)]>>

\* get_zoom_range: the first and the last of the non-empty levels, collected
\* in ascending order; (0, 0) if there is none
get_zoom_range(lb) ==
    LET levels == SelectSeq([i \in 1..(MAX_ZOOM_LEVEL + 1) |-> i - 1],
                            LAMBDA level : ~lb[level].empty)
    IN  IF Len(levels) = 0 THEN <<0, 0>> ELSE <<levels[1], levels[Len(levels)]>>

\* the arguments of the calls: the corner tiles of a level; the empty bbox,
\* the level's full bbox and its tile (0, 0); the empty and the full pyramid,
\* a pyramid of the tile (0, 0) of the levels from 1 on
CornerTiles(level) == {0, 2^level - 1}

LevelBBoxes(level) == {EmptyBBox, TileBBox_new_full(level), BBox(0, 0, 0, 0)}

OtherPyramids ==
    {new_empty, new_full, [z \in ZoomLevels |-> IF z = 0 THEN EmptyBBox ELSE BBox(0, 0, 0, 0)]}

InitPyramide ==
    /\ py_pc = "ready"
    /\ level_bbox \in {new_empty, new_full}
    /\ py_range = None
    /\ IdleOverlay
    /\ IdleConv
    /\ IdleVt
    /\ IdleHttp
    /\ IdleOverlayNew
    /\ IdleVdl
    /\ IdlePipelineReader
    /\ IdleDirConverter
    /\ IdleStaticFolder

set_zoom_min ==
    /\ py_pc \in {"ready", "returned"}
    /\ \E zoom_level_min \in 0..(MAX_ZOOM_LEVEL + 1) :
          level_bbox' = [level \in ZoomLevels |->
                            IF level < zoom_level_min THEN EmptyBBox ELSE level_bbox[level]]
    /\ py_pc' = "ready"
    /\ py_range' = None
    /\ UNCHANGED pyOthers

set_zoom_max ==
    /\ py_pc \in {"ready", "returned"}
    /\ \E zoom_level_max \in ZoomLevels :
          level_bbox' = [level \in ZoomLevels |->
                            IF level > zoom_level_max THEN EmptyBBox ELSE level_bbox[level]]
    /\ py_pc' = "ready"
    /\ py_range' = None
    /\ UNCHANGED pyOthers

intersect ==
    /\ py_pc \in {"ready", "returned"}
    /\ \E other \in OtherPyramids :
          level_bbox' = [level \in ZoomLevels |->
                            TileBBox_intersect(level_bbox[level], other[level])]
    /\ py_pc' = "ready"
    /\ py_range' = None
    /\ UNCHANGED pyOthers

set_level_bbox ==
    /\ py_pc \in {"ready", "returned"}
    /\ \E level \in ZoomLevels : \E bbox \in LevelBBoxes(level) :
          level_bbox' = [level_bbox EXCEPT ![level] = bbox]
    /\ py_pc' = "ready"
    /\ py_range' = None
    /\ UNCHANGED pyOthers

include_tile ==
    /\ py_pc \in {"ready", "returned"}
    /\ \E level \in ZoomLevels : \E col \in CornerTiles(level), row \in CornerTiles(level) :
          level_bbox' = [level_bbox EXCEPT
                            ![level] = include_bbox(@, BBox(col, row, col, row))]
    /\ py_pc' = "ready"
    /\ py_range' = None
    /\ UNCHANGED pyOthers

PyGetZoomRange ==
    /\ py_pc = "ready"
    /\ py_range' = Some(get_zoom_range(level_bbox))
    /\ py_pc' = "returned"
    /\ UNCHANGED level_bbox
    /\ UNCHANGED pyOthers

NextPyramide ==
    \/ set_zoom_min
    \/ set_zoom_max
    \/ intersect
    \/ set_level_bbox
    \/ include_tile
    \/ PyGetZoomRange

SpecPyramide == InitPyramide /\ [][NextPyramide]_vars

NonEmptyLevels == {z \in ZoomLevels : ~level_bbox[z].empty}

\* C21: whatever calls built the pyramid, get_zoom_range returns the lowest
\* and the highest level whose bbox is not empty, and (0, 0) if every level's
\* bbox is empty.
C21_ZoomRange ==
    py_pc = "returned" =>
        /\ IsSome(py_range)
        /\ IF NonEmptyLevels = {}
           THEN Unwrap(py_range) = <<0, 0>>
           ELSE /\ Unwrap(py_range)[1] \in NonEmptyLevels
                /\ Unwrap(py_range)[2] \in NonEmptyLevels
                /\ \A z \in NonEmptyLevels :
                      Unwrap(py_range)[1] <= z /\ z <= Unwrap(py_range)[2]

\* get_zoom_range returned (1, 1) for a pyramid whose only non-empty level
\* is 1, holding less than the full level
C21_Witness ==
    /\ py_pc = "returned"
    /\ NonEmptyLevels = {1}
    /\ level_bbox[1] # TileBBox_new_full(1)
    /\ py_range = Some(<<1, 1>>)

(***************************************************************************)
(* pipeline::PipelineReader                                                *)
(***************************************************************************)
\* a call that returned v, a call that panicked
Returned(v) == [panic |-> FALSE, value |-> v]

Panic == [panic |-> TRUE, value |-> <<>>]

\* the root operations: of either kind in operations/, with parameters, with
\* or without metadata, holding a tile at (0, 0, 0) and none at (0, 0, 1)
PrCoords == {[x |-> 0, y |-> 0, z |-> 0], [x |-> 0, y |-> 0, z |-> 1]}

RootOperations ==
    [kind : {"overlay_tiles", "vectortiles_update_properties"},
     parameters : [tile_format : {"PBF", "PNG"}, tile_compression : TileCompression],
     meta : {None, Some(RawBlob(<<"meta">>))},
     coords : {{[x |-> 0, y |-> 0, z |-> 0]}}]

\* OperationTrait::get_meta: overlay_tiles leaves the body as todo!()
Operation_get_meta(op) ==
    IF op.kind = "overlay_tiles" THEN Panic ELSE Returned(op.meta)

\* OperationTrait::get_tile_data
Operation_get_tile_data(op, coord) ==
    Returned(Ok(IF coord \in op.coords
                THEN Some(compress(RawBlob(<<"tile">>), op.parameters.tile_compression))
                ELSE None))

\* OperationTrait::get_bbox_tile_stream, the stream collected
Operation_get_bbox_tile_stream(op, z) ==
    Returned({<<coord, compress(RawBlob(<<"tile">>), op.parameters.tile_compression)>> :
                 coord \in {c \in op.coords : c.z = z}})

\* override_compression that takes the compression
override_compression_Sets(self_parameters, tile_compression) ==
    [panic |-> FALSE, parameters |-> [self_parameters EXCEPT !.tile_compression = tile_compression]]

\* PipelineReader::override_compression: panic!
override_compression(self_parameters, tile_compression) ==
    [panic |-> TRUE, parameters |-> self_parameters]

\* PipelineReader::get_meta
PipelineReader_get_meta(op) ==
    LET meta == Operation_get_meta(op)
    IN  IF meta.panic THEN Panic ELSE Returned(Ok(meta.value))

\* MockTilesWriter::write_tiles on the reader
write_tiles(op) ==
    LET meta == PipelineReader_get_meta(op)
    IN  IF meta.panic THEN Panic
        ELSE IF ~meta.value.ok THEN Returned(Err)
        ELSE Returned(Ok(<<>>))

\* PipelineReader::from_str
InitPipelineReader ==
    /\ pr_pc = "ready"
    /\ operation \in RootOperations
    /\ pr_parameters = operation.parameters
    /\ pr_call = <<>>
    /\ pr_result = <<>>
    /\ IdleOverlay
    /\ IdleConv
    /\ IdleVt
    /\ IdleHttp
    /\ IdleOverlayNew
    /\ IdleVdl
    /\ IdlePyramide
    /\ IdleDirConverter
    /\ IdleStaticFolder

PrOverrideCompression ==
    /\ pr_pc = "ready"
    /\ \E tile_compression \in TileCompression :
          LET r == override_compression(pr_parameters, tile_compression)
          IN  /\ pr_call' = <<"override_compression", tile_compression>>
              /\ pr_parameters' = r.parameters
              /\ pr_result' = IF r.panic THEN Panic ELSE Returned(<<>>)
              /\ pr_pc' = IF r.panic THEN "panicked" ELSE "ready"
    /\ UNCHANGED operation
    /\ UNCHANGED prOthers

PrGetMeta ==
    /\ pr_pc = "ready"
    /\ pr_call' = <<"get_meta">>
    /\ pr_result' = PipelineReader_get_meta(operation)
    /\ pr_pc' = IF pr_result'.panic THEN "panicked" ELSE "ready"
    /\ UNCHANGED <<operation, pr_parameters>>
    /\ UNCHANGED prOthers

PrGetTileData ==
    /\ pr_pc = "ready"
    /\ \E coord \in PrCoords :
          /\ pr_call' = <<"get_tile_data", coord>>
          /\ pr_result' = Operation_get_tile_data(operation, coord)
    /\ pr_pc' = "ready"
    /\ UNCHANGED <<operation, pr_parameters>>
    /\ UNCHANGED prOthers

PrGetBBoxTileStream ==
    /\ pr_pc = "ready"
    /\ \E z \in {0, 1} :
          /\ pr_call' = <<"get_bbox_tile_stream", z>>
          /\ pr_result' = Operation_get_bbox_tile_stream(operation, z)
    /\ pr_pc' = "ready"
    /\ UNCHANGED <<operation, pr_parameters>>
    /\ UNCHANGED prOthers

PrWriteTiles ==
    /\ pr_pc = "ready"
    /\ pr_call' = <<"write_tiles">>
    /\ pr_result' = write_tiles(operation)
    /\ pr_pc' = IF pr_result'.panic THEN "panicked" ELSE "ready"
    /\ UNCHANGED <<operation, pr_parameters>>
    /\ UNCHANGED prOthers

NextPipelineReader ==
    \/ PrOverrideCompression
    \/ PrGetMeta
    \/ PrGetTileData
    \/ PrGetBBoxTileStream
    \/ PrWriteTiles

SpecPipelineReader == InitPipelineReader /\ [][NextPipelineReader]_vars

\* C23: a call of override_compression panics, and whatever calls were made
\* on the reader, its parameters are the root operation's parameters.
C23_ParametersKept ==
    pr_pc # "idle" =>
        /\ pr_parameters = operation.parameters
        /\ (pr_call # <<>> /\ pr_call[1] = "override_compression") => pr_pc = "panicked"

\* override_compression(Gzip) was called on a reader of uncompressed tiles
C23_Witness ==
    /\ pr_pc = "panicked"
    /\ pr_call = <<"override_compression", "Gzip">>
    /\ operation.parameters.tile_compression = "Uncompressed"
    /\ pr_parameters.tile_compression = "Uncompressed"

\* C27: get_meta of a pipeline reader returns Ok with the root operation's
\* metadata, whatever the root's kind, and a writer that asks for the
\* metadata first gets to its tiles.
C27_GetMetaReturns ==
    /\ (pr_call = <<"get_meta">>) => pr_result = Returned(Ok(operation.meta))
    /\ (pr_call = <<"write_tiles">>) => pr_result = Returned(Ok(<<>>))

(***************************************************************************)
(* directory::TileConverter::convert_from                                  *)
(***************************************************************************)
ext_form(tile_format) ==
    CASE tile_format = "BIN" -> ""
      [] tile_format = "PNG" -> ".png"
      [] tile_format = "JPG" -> ".jpg"
      [] tile_format = "WEBP" -> ".webp"
      [] tile_format = "PBF" -> ".pbf"

ext_comp(tile_compression) ==
    CASE tile_compression = "Uncompressed" -> ""
      [] tile_compression = "Gzip" -> ".gz"
      [] tile_compression = "Brotli" -> ".br"

\* the tile's file name with x and y swapped
tile_filename_XY(coord, ef, ec) ==
    "./" \o ToString(coord.z) \o "/" \o ToString(coord.x) \o "/" \o ToString(coord.y) \o ef \o ec

\* format!("./{}/{}/{}{}{}", z, y, x, ext_form, ext_comp)
tile_filename(coord, ef, ec) ==
    "./" \o ToString(coord.z) \o "/" \o ToString(coord.y) \o "/" \o ToString(coord.x) \o ef \o ec

\* format!("tiles.json{}", ext_comp)
meta_filename(ec) == "tiles.json" \o ec

\* the levels from the highest down
iter_levels_Descending(bbox_pyramid) == [i \in 1..(MaxLevel + 1) |-> MaxLevel + 1 - i]

\* bbox_pyramid.iter_levels(): the levels in ascending order
iter_levels(bbox_pyramid) == [i \in 1..(MaxLevel + 1) |-> i - 1]

\* tile_converter.process_blob: the recompressor of a tile format kept,
\* from the reader's compression to the configured one
process_blob(blob, src_comp, dst_comp) ==
    IF src_comp = dst_comp THEN Ok(blob) ELSE recompress(blob, src_comp, dst_comp)

\* the streams of a level: of level 0 the tile (0, 0), of a higher level the
\* tiles (1, 0) and (0, 1) in row-major order; each tile absent, sound, or
\* bytes that are no valid stream of the reader's compression
StreamEntry(x, y, z, pick, c) ==
    IF pick = "absent" THEN <<>>
    ELSE <<[coord |-> [x |-> x, y |-> y, z |-> z],
            blob |-> IF pick = "junk" THEN JunkBlob(<<"tile">>)
                     ELSE compress(RawBlob(<<"tile">>), c)]>>

StreamOf(z, picks, c) ==
    IF z = 0 THEN StreamEntry(0, 0, 0, picks[1], c)
    ELSE StreamEntry(1, 0, z, picks[1], c) \o StreamEntry(0, 1, z, picks[2], c)

StreamPicks ==
    [Levels -> {<<a, b>> : a \in {"absent", "sound", "junk"}, b \in {"absent", "sound", "junk"}}]

DcReaders ==
    {[parameters |-> p, meta |-> m,
      levels |-> [z \in Levels |-> StreamOf(z, picks[z], p.tile_compression)]] :
        p \in [tile_format : {"PNG", "PBF"}, tile_compression : {"Uncompressed", "Gzip"}],
        m \in {Err, Ok(None), Ok(Some(RawBlob(<<"meta">>)))},
        picks \in {f \in StreamPicks : f[0][2] = "absent"}}

\* a file written: its path, its contents, and the tile it holds if it holds one
Written(p, contents, coord) == [path |-> p, contents |-> contents, coord |-> coord]

\* convert_from ends with the error of the call that failed
DcAbort(call) ==
    /\ dc_failed' = call
    /\ dc_result' = Some(Err)
    /\ dc_pc' = "returned"
    /\ UNCHANGED <<dc_z, dc_i, dc_log>>

\* a new converter called with a reader; config.finalize_with_parameters
\* takes the reader's tile format
InitDirConverter ==
    /\ dc_pc = "called"
    /\ dc_reader \in DcReaders
    /\ \E c \in TileCompression :
          dc_config = [tile_format |-> dc_reader.parameters.tile_format, tile_compression |-> c]
    /\ dc_z = 0
    /\ dc_i = 0
    /\ dc_log = <<>>
    /\ dc_failed = "none"
    /\ dc_result = None
    /\ IdleOverlay
    /\ IdleConv
    /\ IdleVt
    /\ IdleHttp
    /\ IdleOverlayNew
    /\ IdleVdl
    /\ IdlePyramide
    /\ IdlePipelineReader
    /\ IdleStaticFolder

\* convert_from up to the loop over the levels: the metadata
DcMeta ==
    /\ dc_pc = "called"
    /\ LET meta_data_option == dc_reader.meta
       IN  IF ~meta_data_option.ok THEN DcAbort("get_meta")
           ELSE IF IsSome(meta_data_option.val)
           THEN \E written \in BOOLEAN :
                   IF written
                   THEN /\ dc_log' = <<Written(meta_filename(ext_comp(dc_config.tile_compression)),
                                               compress(Unwrap(meta_data_option.val),
                                                        dc_config.tile_compression),
                                               None)>>
                        /\ dc_pc' = "levels"
                        /\ dc_z' = 1
                        /\ dc_i' = 1
                        /\ UNCHANGED <<dc_failed, dc_result>>
                   ELSE DcAbort("write")
           ELSE /\ dc_pc' = "levels"
                /\ dc_z' = 1
                /\ dc_i' = 1
                /\ UNCHANGED <<dc_log, dc_failed, dc_result>>
    /\ UNCHANGED <<dc_reader, dc_config>>
    /\ UNCHANGED dcOthers

DcStream == dc_reader.levels[iter_levels(dc_reader.levels)[dc_z]]

\* one entry of the level's stream
DcTile ==
    /\ dc_pc = "levels"
    /\ dc_z <= Len(iter_levels(dc_reader.levels))
    /\ dc_i <= Len(DcStream)
    /\ LET entry == DcStream[dc_i]
           blob == process_blob(entry.blob, dc_reader.parameters.tile_compression,
                                dc_config.tile_compression)
       IN  IF blob.ok
           THEN \E written \in BOOLEAN :
                   IF written
                   THEN /\ dc_log' = Append(dc_log,
                               Written(tile_filename(entry.coord, ext_form(dc_config.tile_format),
                                                     ext_comp(dc_config.tile_compression)),
                                       blob.val, Some(entry.coord)))
                        /\ dc_i' = dc_i + 1
                        /\ UNCHANGED <<dc_pc, dc_z, dc_failed, dc_result>>
                   ELSE DcAbort("write")
           ELSE /\ dc_i' = dc_i + 1
                /\ UNCHANGED <<dc_pc, dc_z, dc_log, dc_failed, dc_result>>
    /\ UNCHANGED <<dc_reader, dc_config>>
    /\ UNCHANGED dcOthers

\* the level's stream has ended
DcLevelDone ==
    /\ dc_pc = "levels"
    /\ dc_z <= Len(iter_levels(dc_reader.levels))
    /\ dc_i > Len(DcStream)
    /\ dc_z' = dc_z + 1
    /\ dc_i' = 1
    /\ UNCHANGED <<dc_pc, dc_reader, dc_config, dc_log, dc_failed, dc_result>>
    /\ UNCHANGED dcOthers

DcReturn ==
    /\ dc_pc = "levels"
    /\ dc_z > Len(iter_levels(dc_reader.levels))
    /\ dc_result' = Some(Ok(<<>>))
    /\ dc_pc' = "returned"
    /\ UNCHANGED <<dc_reader, dc_config, dc_z, dc_i, dc_log, dc_failed>>
    /\ UNCHANGED dcOthers

NextDirConverter ==
    \/ DcMeta
    \/ DcTile
    \/ DcLevelDone
    \/ DcReturn

SpecDirConverter == InitDirConverter /\ [][NextDirConverter]_vars

DcTilesWritten == SelectSeq(dc_log, LAMBDA w : IsSome(w.coord))

DcStreamed ==
    UNION {{dc_reader.levels[z][i] : i \in 1..Len(dc_reader.levels[z])} : z \in Levels}

DcProcessed(entry) ==
    process_blob(entry.blob, dc_reader.parameters.tile_compression, dc_config.tile_compression)

\* C22: a call that fails ends convert_from with its error, and only a
\* failed get_meta or a failed write does; a convert_from that returned Ok has
\* written every streamed tile whose recompression succeeded, recompressed,
\* to ./<z>/<y>/<x><fmt_ext><comp_ext>, and no tile whose recompression
\* failed.
C22_DropOrAbort ==
    /\ dc_failed # "none" => dc_pc = "returned" /\ dc_result = Some(Err)
    /\ dc_pc = "returned" =>
          IF Unwrap(dc_result).ok
          THEN /\ dc_failed = "none"
               /\ \A e \in DcStreamed :
                     IF DcProcessed(e).ok
                     THEN \E j \in 1..Len(dc_log) :
                             dc_log[j] =
                                Written("./" \o ToString(e.coord.z) \o "/" \o ToString(e.coord.y)
                                           \o "/" \o ToString(e.coord.x)
                                           \o ext_form(dc_reader.parameters.tile_format)
                                           \o ext_comp(dc_config.tile_compression),
                                        DcProcessed(e).val, Some(e.coord))
                     ELSE \A j \in 1..Len(dc_log) : dc_log[j].coord # Some(e.coord)
               /\ Len(DcTilesWritten) = Cardinality({e \in DcStreamed : DcProcessed(e).ok})
          ELSE dc_failed \in {"get_meta", "write"}

\* level 1 streamed a tile (1, 0) that is no gzip stream and then a sound
\* tile (0, 1): convert_from returned Ok, wrote ./1/1/0.png and nothing for
\* (1, 0)
C22_Witness ==
    /\ dc_pc = "returned"
    /\ dc_result = Some(Ok(<<>>))
    /\ dc_reader.parameters = [tile_format |-> "PNG", tile_compression |-> "Gzip"]
    /\ dc_config.tile_compression = "Uncompressed"
    /\ Len(dc_reader.levels[1]) = 2
    /\ dc_reader.levels[1][1].blob = JunkBlob(<<"tile">>)
    /\ dc_log[Len(dc_log)] = Written("./1/1/0.png", RawBlob(<<"tile">>),
                                     Some([x |-> 0, y |-> 1, z |-> 1]))
    /\ \A j \in 1..Len(dc_log) : dc_log[j].path # "./1/0/1.png"

\* C26: tiles.json<comp_ext> is written only if the reader has metadata, and
\* then as the first file; no tile is written after a tile of a higher level.
C26_WriteOrder ==
    /\ \A j \in 1..Len(dc_log) :
          ~IsSome(dc_log[j].coord) =>
             /\ j = 1
             /\ dc_reader.meta.ok
             /\ IsSome(dc_reader.meta.val)
             /\ dc_log[j].path = "tiles.json" \o ext_comp(dc_config.tile_compression)
    /\ (dc_reader.meta.ok /\ IsSome(dc_reader.meta.val) /\ Len(dc_log) > 0) =>
          ~IsSome(dc_log[1].coord)
    /\ \A j \in 1..Len(DcTilesWritten) : \A k \in j..Len(DcTilesWritten) :
          Unwrap(DcTilesWritten[j].coord).z <= Unwrap(DcTilesWritten[k].coord).z

\* tiles.json.gz was written, then a tile of level 0, then a tile of level 1
C26_Witness ==
    /\ dc_pc = "returned"
    /\ Len(dc_log) = 3
    /\ dc_log[1].path = "tiles.json.gz"
    /\ dc_log[2].coord = Some([x |-> 0, y |-> 0, z |-> 0])
    /\ dc_log[3].path = "./1/0/1.pbf.gz"

(***************************************************************************)
(* server::sources::static_source_folder::Folder::get_data                 *)
(***************************************************************************)
\* the longest request path
MaxSegments == 3

\* the file system, by canonical absolute path: the folder /srv/www with
\* index.html, a.txt and the directory sub (without index.html), and the
\* file /srv/secret.txt beside the folder
FsNodes ==
    {[path |-> <<>>, kind |-> "dir", content |-> ""],
     [path |-> <<"srv">>, kind |-> "dir", content |-> ""],
     [path |-> <<"srv", "secret.txt">>, kind |-> "file", content |-> "secret"],
     [path |-> <<"srv", "www">>, kind |-> "dir", content |-> ""],
     [path |-> <<"srv", "www", "index.html">>, kind |-> "file", content |-> "index"],
     [path |-> <<"srv", "www", "a.txt">>, kind |-> "file", content |-> "a"],
     [path |-> <<"srv", "www", "sub">>, kind |-> "dir", content |-> ""]}

\* Folder.folder, canonical
folder == <<"srv", "www">>

KindAt(p) ==
    IF \E n \in FsNodes : n.path = p
    THEN (CHOOSE n \in FsNodes : n.path = p).kind
    ELSE "absent"

\* the file system's walk along the components of a path, from the
\* directory cur: `..` is the parent, a name is the entry of that name
RECURSIVE Walk(_, _, _)
Walk(cur, components, i) ==
    IF i > Len(components) THEN Some(cur)
    ELSE IF KindAt(cur) # "dir" THEN None
    ELSE IF components[i] = ".."
    THEN Walk(IF cur = <<>> THEN cur ELSE SubSeq(cur, 1, Len(cur) - 1), components, i + 1)
    ELSE IF KindAt(Append(cur, components[i])) = "absent" THEN None
    ELSE Walk(Append(cur, components[i]), components, i + 1)

\* Path::is_dir, Path::is_file (which imply Path::exists)
is_dir(p) == Walk(<<>>, p, 1) # None /\ KindAt(Unwrap(Walk(<<>>, p, 1))) = "dir"

is_file(p) == Walk(<<>>, p, 1) # None /\ KindAt(Unwrap(Walk(<<>>, p, 1))) = "file"

\* Path::starts_with: base's components are the first components of p, as
\* written
starts_with(p, base) == Len(p) >= Len(base) /\ SubSeq(p, 1, Len(base)) = base

\* PathBuf::push of PathBuf::from(path.join("/")): the joined string is
\* absolute if it begins with a slash, and then replaces the path; empty
\* components vanish
push_joined(self, segments) ==
    LET components == SelectSeq(segments, LAMBDA s : s # "")
    IN  IF Len(segments) > 1 /\ segments[1] = "" THEN components ELSE self \o components

\* the file's content as the response
new_some(p) ==
    Some([blob |-> (CHOOSE n \in FsNodes : n.path = Unwrap(Walk(<<>>, p, 1))).content,
          compression |-> "None"])

\* Folder::get_data
Folder_get_data(segments) ==
    LET joined == push_joined(folder, segments)
        local_path == IF is_dir(joined) THEN Append(joined, "index.html") ELSE joined
    IN  IF ~starts_with(local_path, folder) \/ ~is_file(local_path) THEN None
        ELSE new_some(local_path)

SfSegments == {"..", "", "a.txt", "sub", "secret.txt", "srv", "www"}

SfPaths == UNION {[1..n -> SfSegments] : n \in 0..MaxSegments}

InitStaticFolder ==
    /\ sf_pc = "waiting"
    /\ sf_path = <<>>
    /\ sf_response = None
    /\ IdleOverlay
    /\ IdleConv
    /\ IdleVt
    /\ IdleHttp
    /\ IdleOverlayNew
    /\ IdleVdl
    /\ IdlePyramide
    /\ IdlePipelineReader
    /\ IdleDirConverter

SfGetData ==
    /\ sf_pc = "waiting"
    /\ \E path_ \in SfPaths :
          /\ sf_path' = path_
          /\ sf_response' = Folder_get_data(path_)
    /\ sf_pc' = "answered"
    /\ UNCHANGED sfOthers

NextStaticFolder == SfGetData

SpecStaticFolder == InitStaticFolder /\ [][NextStaticFolder]_vars

InsideFolder(p) == Len(p) >= Len(folder) /\ SubSeq(p, 1, Len(folder)) = folder

\* C28: whatever the request path, a response holds the content of a
\* regular file that lies inside the folder.
C28_NoFileOutsideFolder ==
    (sf_pc = "answered" /\ IsSome(sf_response)) =>
        \E n \in FsNodes :
            /\ n.kind = "file"
            /\ InsideFolder(n.path)
            /\ Unwrap(sf_response).blob = n.content

====
